---- MODULE Spec2Model ----
(***************************************************************************)
(* Subagent orchestration engine of letta-code (agent/subagents/manager):  *)
(* spawnSubagent, executeSubagent, the stream-event processor and the      *)
(* retry loop, as a state machine of one spawnSubagent invocation.         *)
(*                                                                         *)
(* Texts (error messages, reports) are sets of phrase tokens <<phrase,     *)
(* case>>: String.includes(p) is membership of p's token as the code       *)
(* spells it, toLowerCase() maps every token to case "lower".  Argument    *)
(* strings are sequences of characters, concatenated with \o.              *)
(***************************************************************************)
EXTENDS Integers, Sequences, FiniteSets, TLC

VARIABLES
  pc,                    \* where the invocation is suspended
  onProgressThrows,      \* input: the caller's onProgress callback throws
  signalAborted,         \* signal.aborted
  userModel,             \* spawnSubagent: userModel, until the model is resolved
  parentModelHandle,     \* spawnSubagent: parentModelHandle, until the model is resolved
  model,                 \* spawnSubagent: model
  expansionChain,        \* spawnSubagent: expansionChain
  retryAgentId,          \* spawnSubagent: retryAgentId
  retryConversationId,   \* spawnSubagent: retryConversationId
  attempt,               \* spawnSubagent: attempt
  lastResult,            \* spawnSubagent: lastResult
  exec,                  \* parameters of the executeSubagent call in progress
  wasAborted,            \* executeSubagent: wasAborted
  abortListener,         \* abortHandler is registered on the signal
  state,                 \* executeSubagent: the attempt's ExecutionState
  stderr,                \* text accumulated in stderrChunks
  lastLine,              \* last line pushed to stdoutChunks
  nLines,                \* number of lines the current child has emitted
  result,                \* the SubagentResult spawnSubagent resolved with
  obs,                   \* what the observers saw since the latest child was spawned
  config,                \* the subagent type's configuration and the parent's permissions
  cliArgs,               \* executeSubagent: cliArgs of the latest child
  call,                  \* the latest call of a function that keeps no state: arguments and value
  permission,            \* permissions/mode: the global mode, plan file path and mode before plan
  toolset,               \* tools/manager: the switch lock, the registry and the callers
  other,                 \* the attempt of a second, concurrent spawnSubagent invocation
  hist                   \* history of the invocation, read by the properties only

vars == <<call, permission, toolset, other, pc, onProgressThrows, signalAborted, userModel, parentModelHandle, model, expansionChain, retryAgentId,
          retryConversationId, attempt, lastResult, exec, wasAborted, abortListener,
          state, stderr, lastLine, nLines, result, obs, config, cliArgs, hist>>

(***************************************************************************)
(* Bounds of the model                                                     *)
(***************************************************************************)
\* lines one child emits on stdout before it closes, in the stream specification
MaxLines == 3
\* the same, in the orchestration specification
MaxOrchLines == 1
\* entries of a model selector, in the resolution specification
MaxSelectorLen == 2

(***************************************************************************)
(* Program constants                                                       *)
(***************************************************************************)
MAX_TRANSIENT_RETRIES_mut == 2 + 1
MAX_TRANSIENT_RETRIES == 2

(***************************************************************************)
(* Texts                                                                   *)
(***************************************************************************)
Tok(p, c) == <<p, c>>
NullTxt == {Tok("null", "null")}          \* null / undefined
EmptyTxt == {}                            \* ""
Truthy(t) == t # NullTxt /\ t # EmptyTxt
OrTxt(a, b) == IF Truthy(a) THEN a ELSE b \* a || b
toLowerCase(t) == {Tok(k[1], "lower") : k \in t \ NullTxt}
includes(t, p, c) == Tok(p, c) \in t

INTERRUPTED_BY_USER == {Tok("interrupted by user", "cap")}
UnknownErrorTxt == {Tok("unknown error", "cap")}
ExitedWithCodeTxt == {Tok("subagent exited with code", "cap")}
UnexpectedFormatTxt == {Tok("unexpected output format from subagent", "cap")}
FailedToParseTxt == {Tok("failed to parse subagent output", "cap")}
UnknownTypeTxt == {Tok("unknown subagent type", "cap")}

\* texts a child can write to stderr or carry in an event
RateTxt == {Tok("rate limit", "lower")}
TransientTxt == {Tok("timeout", "lower")}
UnknownModelTxt == {Tok("unknown model", "cap")}
ProviderTxt == {Tok("provider", "cap"), Tok("is not supported", "lower"),
                Tok("supported providers:", "lower")}
GenericTxt == {Tok("boom", "lower")}
DoneTxt == {Tok("done", "lower")}

isProviderNotSupportedError(errorOutput) ==
  /\ includes(errorOutput, "provider", "cap")
  /\ includes(errorOutput, "is not supported", "lower")
  /\ includes(errorOutput, "supported providers:", "lower")

isUnknownModelError(errorOutput) ==
  includes(errorOutput, "unknown model", "cap")

TransientPhrases ==
  {"readerror", "httpx.readerror", "httpcore.readerror", "connection reset",
   "connection aborted", "broken pipe", "timed out", "timeout", "failed to connect",
   "econnreset", "econnrefused", "socket hang up", "stream was cancelled",
   "stream ended"}

isTransientTransportError(errorOutput) ==
  LET lowerError == toLowerCase(errorOutput)
  IN  \E p \in TransientPhrases : includes(lowerError, p, "lower")

RateLimitPhrases ==
  {"rate limit", "rate_limit", "ratelimit", "too many requests", "429",
   "temporarily unavailable", "temporarily disabled",
   "model is currently unavailable", "capacity", "overloaded"}

isRateLimitError(errorOutput) ==
  LET lowerError == toLowerCase(errorOutput)
  IN  \E p \in RateLimitPhrases : includes(lowerError, p, "lower")

isRetryableSubagentError_mut(errorMessage) == Truthy(errorMessage)

isRetryableSubagentError(errorMessage) ==
  IF ~Truthy(errorMessage) THEN FALSE
  ELSE isRateLimitError(errorMessage) \/ isTransientTransportError(errorMessage)

(***************************************************************************)
(* ExecutionState and the observers                                        *)
(***************************************************************************)
ToolIds == {"t1", "t2"}
EmptyObject == <<"{}">>                   \* the string "{}"
NullStr == <<"null">>                     \* an absent argument string
NoStats == [durationMs |-> -1, totalTokens |-> -1]

NewExecutionState(existingAgentId, existingConversationId) ==
  [agentId |-> existingAgentId,
   conversationId |-> existingConversationId,
   finalResult |-> NullTxt,
   finalError |-> NullTxt,
   resultStats |-> NoStats,
   displayedToolCalls |-> {},
   pendingToolCalls |-> <<>>]

NoObs ==
  [progress |-> <<>>,
   trackerAdds |-> [i \in ToolIds |-> 0],
   trackerArgs |-> [i \in ToolIds |-> NullStr],
   trackerCalls |-> 0]

Notify_mut(o, kind, id) ==
  [o EXCEPT !.progress = <<[kind |-> kind, id |-> id]>> \o @]

\* onProgress?.(update)
Notify(o, kind, id) ==
  [o EXCEPT !.progress = Append(@, [kind |-> kind, id |-> id])]

addToolCall(o, id, args) ==
  [o EXCEPT !.trackerAdds[id] = @ + 1, !.trackerArgs[id] = args,
            !.trackerCalls = @ + 1]

updateToolCall(o, id, args) ==
  [o EXCEPT !.trackerArgs[id] = args, !.trackerCalls = @ + 1]

updateSubagent(o) == [o EXCEPT !.trackerCalls = @ + 1]

\* Map.get(id) || { name: "", args: "" }
PendingGet(pending, id) ==
  IF \E i \in 1..Len(pending) : pending[i].id = id
  THEN LET i == CHOOSE j \in 1..Len(pending) : pending[j].id = id
       IN  [name |-> pending[i].name, args |-> pending[i].args]
  ELSE [name |-> "", args |-> <<>>]

\* Map.set(id, {name, args}): an existing key keeps its insertion position
PendingSet(pending, id, name, args) ==
  IF \E i \in 1..Len(pending) : pending[i].id = id
  THEN [i \in 1..Len(pending) |->
          IF pending[i].id = id THEN [id |-> id, name |-> name, args |-> args]
          ELSE pending[i]]
  ELSE Append(pending, [id |-> id, name |-> name, args |-> args])

Outcome(st, o, threw) == [state |-> st, obs |-> o, threw |-> threw]

recordToolCall_mut(st, o, toolCallId, toolName, toolArgs) ==
  IF toolCallId = "" \/ toolName = ""
  THEN Outcome(st, o, FALSE)
  ELSE Outcome([st EXCEPT !.displayedToolCalls = @ \cup {toolCallId}],
               Notify(addToolCall(o, toolCallId, toolArgs), "tool", toolCallId),
               onProgressThrows)

recordToolCall(st, o, toolCallId, toolName, toolArgs) ==
  IF toolCallId = "" \/ toolName = "" \/ toolCallId \in st.displayedToolCalls
  THEN Outcome(st, o, FALSE)
  ELSE Outcome([st EXCEPT !.displayedToolCalls = @ \cup {toolCallId}],
               Notify(addToolCall(o, toolCallId, toolArgs), "tool", toolCallId),
               onProgressThrows)

RECURSIVE handleToolCallMessageEvent(_, _, _)
handleToolCallMessageEvent(toolCalls, st, o) ==
  IF toolCalls = <<>> THEN Outcome(st, o, FALSE)
  ELSE
    LET tc == Head(toolCalls)
        id == tc.tool_call_id
    IN
    IF id = "" THEN handleToolCallMessageEvent(Tail(toolCalls), st, o)
    ELSE
      LET prev == PendingGet(st.pendingToolCalls, id)
          name == IF tc.name # "" THEN tc.name ELSE prev.name
          args == prev.args \o tc.arguments
          st1 == [st EXCEPT !.pendingToolCalls = PendingSet(@, id, name, args)]
          normalizedArgs == IF args = <<>> THEN EmptyObject ELSE args
      IN
      IF id \in st.displayedToolCalls
      THEN handleToolCallMessageEvent(Tail(toolCalls), st1,
                                      updateToolCall(o, id, normalizedArgs))
      ELSE IF name # ""
      THEN LET r == recordToolCall(st1, o, id, name, normalizedArgs)
           IN  IF r.threw THEN r
               ELSE handleToolCallMessageEvent(Tail(toolCalls), r.state, r.obs)
      ELSE handleToolCallMessageEvent(Tail(toolCalls), st1, o)

RECURSIVE handleApprovalRequestEvent_mut(_, _)
handleApprovalRequestEvent_mut(toolCalls, st) ==
  IF toolCalls = <<>> THEN st
  ELSE
    LET tc == Head(toolCalls)
        id == tc.tool_call_id
    IN
    IF id = "" THEN handleApprovalRequestEvent_mut(Tail(toolCalls), st)
    ELSE
      LET prev == PendingGet(st.pendingToolCalls, id)
          name == IF tc.name # "" THEN tc.name ELSE prev.name
          args == tc.arguments
      IN  handleApprovalRequestEvent_mut(Tail(toolCalls),
            [st EXCEPT !.pendingToolCalls = PendingSet(@, id, name, args)])

RECURSIVE handleApprovalRequestEvent(_, _)
handleApprovalRequestEvent(toolCalls, st) ==
  IF toolCalls = <<>> THEN st
  ELSE
    LET tc == Head(toolCalls)
        id == tc.tool_call_id
    IN
    IF id = "" THEN handleApprovalRequestEvent(Tail(toolCalls), st)
    ELSE
      LET prev == PendingGet(st.pendingToolCalls, id)
          name == IF tc.name # "" THEN tc.name ELSE prev.name
          args == prev.args \o tc.arguments
      IN  handleApprovalRequestEvent(Tail(toolCalls),
            [st EXCEPT !.pendingToolCalls = PendingSet(@, id, name, args)])

handleAutoApprovalEvent(event, st, o) ==
  IF event.tcs = <<>> THEN Outcome(st, o, FALSE)
  ELSE
    LET tc == Head(event.tcs)
        tool_args == IF tc.arguments = NullStr THEN EmptyObject ELSE tc.arguments
    IN  IF tc.tool_call_id # "" /\ tc.name # ""
        THEN recordToolCall(st, o, tc.tool_call_id, tc.name, tool_args)
        ELSE Outcome(st, o, FALSE)

handleInitEvent_mut(event, st, o) ==
  LET st1 == [st EXCEPT !.agentId = event.agent_id]
      o1 == IF event.agent_id # "" THEN updateSubagent(o) ELSE o
      st2 == [st1 EXCEPT !.conversationId = event.conversation_id]
      o2 == IF event.conversation_id # "" THEN updateSubagent(o1) ELSE o1
  IN  IF event.agent_id # "" \/ event.conversation_id # ""
      THEN Outcome(st2, Notify(o2, "ids", event.agent_id), onProgressThrows)
      ELSE Outcome(st2, o2, FALSE)

handleInitEvent(event, st, o) ==
  LET st1 == IF event.agent_id # "" THEN [st EXCEPT !.agentId = event.agent_id] ELSE st
      o1 == IF event.agent_id # "" THEN updateSubagent(o) ELSE o
      st2 == IF event.conversation_id # ""
             THEN [st1 EXCEPT !.conversationId = event.conversation_id] ELSE st1
      o2 == IF event.conversation_id # "" THEN updateSubagent(o1) ELSE o1
  IN  IF event.agent_id # "" \/ event.conversation_id # ""
      THEN Outcome(st2, Notify(o2, "ids", event.agent_id), onProgressThrows)
      ELSE Outcome(st2, o2, FALSE)

\* the loop over state.pendingToolCalls.entries() of handleResultEvent
RECURSIVE FlushPending(_, _, _)
FlushPending(entries, st, o) ==
  IF entries = <<>> THEN Outcome(st, o, FALSE)
  ELSE
    LET e == Head(entries)
    IN  IF e.name # "" /\ e.id \notin st.displayedToolCalls
        THEN LET r == recordToolCall(st, o, e.id, e.name,
                                     IF e.args = <<>> THEN EmptyObject ELSE e.args)
             IN  IF r.threw THEN r ELSE FlushPending(Tail(entries), r.state, r.obs)
        ELSE FlushPending(Tail(entries), st, o)

handleResultEvent_mut(event, st, o) ==
  LET st1 == [st EXCEPT !.finalResult = OrTxt(event.text, EmptyTxt),
                        !.resultStats = [durationMs |-> event.duration_ms,
                                         totalTokens |-> event.total_tokens]]
  IN  IF event.is_error
      THEN Outcome([st1 EXCEPT !.finalError = OrTxt(event.text, UnknownErrorTxt)],
                   updateSubagent(o), FALSE)
      ELSE LET r == FlushPending(st1.pendingToolCalls,
                                 [st1 EXCEPT !.finalError = NullTxt], o)
           IN  IF r.threw THEN r ELSE Outcome(r.state, updateSubagent(r.obs), FALSE)

\* handleResultEvent, lines 494-534
handleResultEvent(event, st, o) ==
  LET st1 == [st EXCEPT !.finalResult = OrTxt(event.text, EmptyTxt),
                        !.resultStats = [durationMs |-> event.duration_ms,
                                         totalTokens |-> event.total_tokens]]
  IN  IF event.is_error
      THEN Outcome([st1 EXCEPT !.finalError = OrTxt(event.text, UnknownErrorTxt)],
                   updateSubagent(o), FALSE)
      ELSE LET r == FlushPending(st1.pendingToolCalls, st1, o)
           IN  IF r.threw THEN r ELSE Outcome(r.state, updateSubagent(r.obs), FALSE)

\* if (event?.type === "stream_event" && event.event) event = event.event
Unwrap(line) ==
  IF line.type = "stream_event" /\ line.event # <<>> THEN Head(line.event) ELSE line

\* A line is [type, subtype, message_type, agent_id, conversation_id, tcs, text,
\* is_error, duration_ms, total_tokens, event]; type "malformed" is a line
\* JSON.parse rejects, type "null" one that parses to null (reading its type
\* throws), type "stream_event" a wrapper around the line in its event field.
\* the body of the try block: dispatch on event.type
DispatchEvent_mut(line, st, o) ==
  LET event == Unwrap(line)
  IN  CASE event.type \in {"malformed", "null"} -> Outcome(st, o, FALSE)
        [] event.type = "init" -> handleInitEvent(event, st, o)
        [] event.type = "system" ->
             IF event.subtype = "init" THEN handleInitEvent(event, st, o)
             ELSE Outcome(st, o, FALSE)
        [] event.type = "message" ->
             IF event.message_type \in {"approval_request_message", "tool_call_message"}
             THEN handleToolCallMessageEvent(event.tcs, st, o)
             ELSE Outcome(st, o, FALSE)
        [] event.type = "auto_approval" -> handleAutoApprovalEvent(event, st, o)
        [] event.type = "result" -> handleResultEvent(event, st, o)
        [] event.type = "error" ->
             Outcome([st EXCEPT !.finalError = OrTxt(event.text, UnknownErrorTxt)],
                     o, FALSE)
        [] OTHER -> Outcome(st, o, FALSE)

DispatchEvent(line, st, o) ==
  LET event == Unwrap(line)
  IN  CASE event.type \in {"malformed", "null"} -> Outcome(st, o, FALSE)
        [] event.type = "init" -> handleInitEvent(event, st, o)
        [] event.type = "system" ->
             IF event.subtype = "init" THEN handleInitEvent(event, st, o)
             ELSE Outcome(st, o, FALSE)
        [] event.type = "message" ->
             IF event.message_type = "approval_request_message"
             THEN Outcome(handleApprovalRequestEvent(event.tcs, st), o, FALSE)
             ELSE IF event.message_type = "tool_call_message"
             THEN handleToolCallMessageEvent(event.tcs, st, o)
             ELSE Outcome(st, o, FALSE)
        [] event.type = "auto_approval" -> handleAutoApprovalEvent(event, st, o)
        [] event.type = "result" -> handleResultEvent(event, st, o)
        [] event.type = "error" ->
             Outcome([st EXCEPT !.finalError = OrTxt(event.text, UnknownErrorTxt)],
                     o, FALSE)
        [] OTHER -> Outcome(st, o, FALSE)

processStreamEvent_mut(line, st, o) ==
  IF Unwrap(line).type \in {"malformed", "null"}
  THEN Outcome([st EXCEPT !.finalError = FailedToParseTxt], o, FALSE)
  ELSE LET r == DispatchEvent(line, st, o) IN Outcome(r.state, r.obs, FALSE)

\* try { dispatch } catch { ignore }: whatever the parse or a handler threw is
\* swallowed, and what the handler had done before it threw stays done
processStreamEvent(line, st, o) ==
  LET r == DispatchEvent(line, st, o) IN Outcome(r.state, r.obs, FALSE)

(***************************************************************************)
(* Lines a child can emit                                                  *)
(***************************************************************************)
BlankLine ==
  [type |-> "malformed", subtype |-> "", message_type |-> "", agent_id |-> "",
   conversation_id |-> "", tcs |-> <<>>, text |-> NullTxt, is_error |-> FALSE,
   duration_ms |-> 0, total_tokens |-> 0, event |-> <<>>]

ToolCall(id, name, arguments) ==
  [tool_call_id |-> id, name |-> name, arguments |-> arguments]

InitLine(ag, cv) ==
  [BlankLine EXCEPT !.type = "init", !.agent_id = ag, !.conversation_id = cv]
SystemLine(subtype, ag, cv) ==
  [BlankLine EXCEPT !.type = "system", !.subtype = subtype, !.agent_id = ag,
                    !.conversation_id = cv]
MessageLine(message_type, tcs) ==
  [BlankLine EXCEPT !.type = "message", !.message_type = message_type, !.tcs = tcs]
AutoApprovalLine(tcs) == [BlankLine EXCEPT !.type = "auto_approval", !.tcs = tcs]
ResultLine(text, is_error, tokens) ==
  [BlankLine EXCEPT !.type = "result", !.text = text, !.is_error = is_error,
                    !.duration_ms = 120, !.total_tokens = tokens]
ErrorLine(text) == [BlankLine EXCEPT !.type = "error", !.text = text]
MalformedLine == BlankLine
NullLine == [BlankLine EXCEPT !.type = "null"]
\* no line
NoLine == [BlankLine EXCEPT !.type = "none"]
\* { type: "stream_event", event: {...} }
Wrapped(inner) == [BlankLine EXCEPT !.type = "stream_event", !.event = <<inner>>]

\* lines of the orchestration specification
OrchLines ==
  {InitLine("ag1", "cv1"),
   ResultLine(DoneTxt, FALSE, 42),
   ErrorLine(RateTxt),
   MalformedLine}

(***************************************************************************)
(* SubagentResult                                                          *)
(***************************************************************************)
NoTokens == -1
NoResult == [none |-> TRUE]

Res(agentId, conversationId, report, success, error, totalTokens) ==
  [agentId |-> agentId, conversationId |-> conversationId, report |-> report,
   success |-> success, error |-> error, totalTokens |-> totalTokens]

InterruptedResult(agentId, conversationId) ==
  Res(agentId, conversationId, EmptyTxt, FALSE, INTERRUPTED_BY_USER, NoTokens)

parseResultFromStdout_mut(last, agentId) ==
  Res(agentId, "", EmptyTxt, TRUE, NullTxt, NoTokens)

\* lines 591-624; last is the last line of the child's stdout
parseResultFromStdout(last, agentId) ==
  CASE last.type \in {"malformed", "null"} ->
         Res(agentId, "", EmptyTxt, FALSE, FailedToParseTxt, NoTokens)
    [] last.type = "result" ->
         Res(agentId, "", OrTxt(last.text, EmptyTxt), ~last.is_error,
             IF last.is_error THEN OrTxt(last.text, UnknownErrorTxt) ELSE NullTxt,
             NoTokens)
    [] OTHER ->
         Res(agentId, "", EmptyTxt, FALSE, UnexpectedFormatTxt, NoTokens)


(***************************************************************************)
(* Model resolution                                                        *)
(***************************************************************************)
GroupTokens == {"group:fast"}                      \* entries starting "group:"
SlashHandles == {"p/m1", "p/m2", "p/parent"}   \* entries containing "/"
isSelector(um) ==
  um \in GroupTokens \/ um = "inherit" \/ um = "any"
isConcreteModelSelector(entry) ==
  ~(entry \in GroupTokens) /\ entry # "inherit" /\ entry # "any"
getDefaultModel == "p/m1"
\* models.json lookup; "" is null
resolveModel(modelIdentifier) ==
  IF modelIdentifier = "p/m1" \/ modelIdentifier = "sonnet" THEN "p/m1" ELSE ""
\* static lookup, then the server's list, which may fail or not know the model
resolveModelAsync(modelIdentifier) ==
  IF resolveModel(modelIdentifier) # "" THEN {resolveModel(modelIdentifier)}
  ELSE IF modelIdentifier \in SlashHandles THEN {"", modelIdentifier}
  ELSE IF modelIdentifier = "m2" THEN {"", "p/m2"}
  ELSE {""}

RECURSIVE FirstConcrete(_)
FirstConcrete(selector) ==
  IF selector = <<>> THEN {getDefaultModel}
  ELSE LET entry == Head(selector)
       IN  IF ~isConcreteModelSelector(entry) THEN FirstConcrete(Tail(selector))
           ELSE IF entry \in SlashHandles THEN {entry}
           ELSE IF resolveModel(entry) # "" THEN {resolveModel(entry)}
           ELSE (resolveModelAsync(entry) \ {""}) \cup FirstConcrete(Tail(selector))

getFallbackModelFromSelector_mut(selector, parentHandle) ==
  IF parentHandle # "" THEN {parentHandle}
  ELSE LET concrete == SelectSeq(selector, isConcreteModelSelector)
       IN  IF concrete # <<>> THEN {Head(concrete)} ELSE {getDefaultModel}

getFallbackModelFromSelector(selector, parentHandle) ==
  IF parentHandle # "" THEN {parentHandle} ELSE FirstConcrete(selector)

Resolution(handle, chain) == [resolved_handle |-> handle, expansion_chain |-> chain]

\* what POST /v1/models/resolve can answer
ServerResponses ==
  {Resolution("p/m1", <<"p/m1">>),
   Resolution("p/m1", <<"p/m1", "p/m2">>),
   Resolution("p/parent", <<"p/parent">>)}

resolveModelSelectorWithChain_mut(selector, parentHandle, requestFails) ==
  IF requestFails
  THEN {Resolution(f, <<>>) : f \in getFallbackModelFromSelector(selector, parentHandle)}
  ELSE ServerResponses

\* requestFails: the request to the server throws
resolveModelSelectorWithChain(selector, parentHandle, requestFails) ==
  IF requestFails
  THEN {Resolution(f, <<f>>) : f \in getFallbackModelFromSelector(selector, parentHandle)}
  ELSE ServerResponses

\* getPrimaryAgentModelHandle(): the parent's handle, or undefined when the
\* lookup fails
PrimaryHandles == {"", "p/parent"}
UserModels == {"", "group:fast", "p/m1", "bogus"}
\* the entries of model selectors
SelectorTokens == {"group:fast", "inherit", "any", "p/m2", "sonnet", "m2", "bogus"}
RECURSIVE SelectorsOfLen(_)
SelectorsOfLen(n) ==
  IF n = 0 THEN {<<>>}
  ELSE {<<t>> \o rest : t \in SelectorTokens, rest \in SelectorsOfLen(n - 1)}
Selectors == UNION {SelectorsOfLen(n) : n \in 0..MaxSelectorLen}

\* spawnSubagent, lines 1189-1267: the model and chain the loop starts with
ResolveForSpawn(um, selector, parentHandle, existingAgentId, existingConversationId, requestFails) ==
  IF existingAgentId # "" \/ existingConversationId # ""
  THEN IF existingAgentId # ""
       THEN {Resolution("", <<>>), Resolution("p/m1", <<>>)}
       ELSE {Resolution("", <<>>)}
  ELSE IF um # ""
  THEN IF isSelector(um)
       THEN resolveModelSelectorWithChain(<<um, "any">>, parentHandle, requestFails)
       ELSE UNION {IF r # "" THEN {Resolution(r, <<r>>)}
                   ELSE IF um \in SlashHandles
                   THEN {Resolution(um, <<um>>)}
                   ELSE resolveModelSelectorWithChain(selector, parentHandle,
                                                      requestFails)
                   : r \in resolveModelAsync(um)}
  ELSE resolveModelSelectorWithChain(selector, parentHandle, requestFails)

\* spawnSubagent, lines 1199-1246: the resolution calls resolveModelSelectorWithChain
CallsResolver(um, existingAgentId, existingConversationId) ==
  /\ existingAgentId = "" /\ existingConversationId = ""
  /\ \/ um = ""
     \/ isSelector(um)
     \/ um \notin SlashHandles /\ "" \in resolveModelAsync(um)

\* spawnSubagent, lines 1209, 1233 and 1243: the selector the resolver is called with
SelectorFor(um, cfg) == IF isSelector(um) THEN <<um, "any">> ELSE cfg.modelSelector


(***************************************************************************)
(* buildSubagentArgs                                                       *)
(*                                                                         *)
(* An argument vector is a sequence of arguments; an argument is the       *)
(* sequence of its comma-separated items, a plain string being one item.   *)
(***************************************************************************)
SubagentType == "explore"
UserPrompt == "prompt"
Arg(s) == <<s>>
\* Array.join(","), on the non-empty lists the code joins
join(list) == list

Dedupe_mut(list, seen) == list

\* [...new Set(list)]: the first occurrence of every item, in order
RECURSIVE Dedupe(_, _)
Dedupe(list, seen) ==
  IF list = <<>> THEN <<>>
  ELSE IF Head(list) \in seen THEN Dedupe(Tail(list), seen)
  ELSE <<Head(list)>> \o Dedupe(Tail(list), seen \cup {Head(list)})

\* modelSelector is config.modelSelector || [config.recommendedModel];
\* allowedTools is "all" (all = TRUE) or an array; memoryBlocks is undefined
\* ("unset"), "none" or an array ("list"); permissionMode "" is undefined;
\* maxTurns -1 is undefined
AllTools == [all |-> TRUE, list |-> <<>>]
ToolList(list) == [all |-> FALSE, list |-> list]
Blocks(kind, list) == [kind |-> kind, list |-> list]

DefaultConfig ==
  [permissionMode |-> "", allowedTools |-> ToolList(<<"Read", "Grep">>),
   memoryBlocks |-> Blocks("list", <<"human", "persona">>), skills |-> <<>>,
   modelSelector |-> <<"group:fast", "any">>,
   parentMode |-> "default", parentAllowedTools |-> <<>>,
   sessionAllowRules |-> <<>>, parentDisallowedTools |-> <<>>, maxTurns |-> -1]

Configs ==
  [permissionMode : {"", "plan"},
   allowedTools : {AllTools, ToolList(<<>>), ToolList(<<"Read", "Grep">>)},
   memoryBlocks : {Blocks("unset", <<>>), Blocks("none", <<>>), Blocks("list", <<>>),
                   Blocks("list", <<"human", "persona">>)},
   skills : {<<>>, <<"s1">>},
   modelSelector : {<<"group:fast", "any">>},
   parentMode : {"default", "acceptEdits"},
   parentAllowedTools : {<<>>, <<"Read">>},
   sessionAllowRules : {<<>>, <<"Bash">>},
   parentDisallowedTools : {<<>>, <<"Write">>},
   maxTurns : {-1, 0, 5}]

IdentityArgs_mut(type, m, existingAgentId, existingConversationId) ==
  (IF existingConversationId # ""
   THEN <<Arg("--conv"), Arg(existingConversationId)>>
   ELSE IF existingAgentId # ""
   THEN <<Arg("--agent"), Arg(existingAgentId), Arg("--new")>>
   ELSE <<Arg("--new-agent"), Arg("--system"), Arg(type)>>)
  \o (IF m # "" THEN <<Arg("--model"), Arg(m)>> ELSE <<>>)

\* buildSubagentArgs, lines 643-667: the arguments that choose the identity
IdentityArgs(type, m, existingAgentId, existingConversationId) ==
  LET isDeployingExisting == existingAgentId # "" \/ existingConversationId # ""
  IN  IF isDeployingExisting
      THEN IF existingConversationId # ""
           THEN <<Arg("--conv"), Arg(existingConversationId)>>
           ELSE <<Arg("--agent"), Arg(existingAgentId), Arg("--new")>>
      ELSE <<Arg("--new-agent"), Arg("--system"), Arg(type)>>
           \o (IF m # "" THEN <<Arg("--model"), Arg(m)>> ELSE <<>>)

\* buildSubagentArgs, lines 633-731
buildSubagentArgs(type, cfg, m, userPrompt, existingAgentId, existingConversationId, maxTurns) ==
  LET isDeployingExisting == existingAgentId # "" \/ existingConversationId # ""
      modeToUse == IF cfg.permissionMode # "" THEN cfg.permissionMode
                   ELSE cfg.parentMode
      subagentTools == IF ~cfg.allowedTools.all THEN cfg.allowedTools.list ELSE <<>>
      combinedAllowedTools ==
        Dedupe(cfg.parentAllowedTools \o cfg.sessionAllowRules \o subagentTools, {})
  IN  IdentityArgs(type, m, existingAgentId, existingConversationId)
      \o <<Arg("-p"), Arg(userPrompt)>>
      \o <<Arg("--output-format"), Arg("stream-json")>>
      \o (IF modeToUse # "default"
          THEN <<Arg("--permission-mode"), Arg(modeToUse)>> ELSE <<>>)
      \o (IF Len(combinedAllowedTools) > 0
          THEN <<Arg("--allowedTools"), join(combinedAllowedTools)>> ELSE <<>>)
      \o (IF Len(cfg.parentDisallowedTools) > 0
          THEN <<Arg("--disallowedTools"), join(cfg.parentDisallowedTools)>>
          ELSE <<>>)
      \o (IF ~isDeployingExisting
          THEN IF cfg.memoryBlocks.kind = "none"
               THEN <<Arg("--init-blocks"), Arg("none")>>
               ELSE IF cfg.memoryBlocks.kind = "list" /\ Len(cfg.memoryBlocks.list) > 0
               THEN <<Arg("--init-blocks"), join(cfg.memoryBlocks.list)>>
               ELSE <<>>
          ELSE <<>>)
      \o (IF ~cfg.allowedTools.all /\ Len(cfg.allowedTools.list) > 0
          THEN <<Arg("--tools"), join(cfg.allowedTools.list)>> ELSE <<>>)
      \o (IF maxTurns # -1 /\ maxTurns > 0
          THEN <<Arg("--max-turns"), Arg(ToString(maxTurns))>> ELSE <<>>)
      \o (IF Len(cfg.skills) > 0
          THEN <<Arg("--pre-load-skills"), join(cfg.skills)>> ELSE <<>>)

(***************************************************************************)
(* spawnSubagent and executeSubagent                                       *)
(***************************************************************************)
\* exit codes: 0, and 1 for every other code (null included: the child was
\* killed by a signal, or 'error' was emitted)
ExitCodes == {0, 1}
StderrTexts == {EmptyTxt, RateTxt, TransientTxt, UnknownModelTxt, ProviderTxt, GenericTxt}

NoExec ==
  [model |-> "", expansionChain |-> <<>>, chainIndex |-> 0, existingAgentId |-> "",
   existingConversationId |-> "", exitCode |-> 0]

\* no child has closed since the loop called executeSubagent, or a child is running
NoClose ==
  [closed |-> FALSE, code |-> 0, aborted |-> FALSE, lines |-> <<>>, stderr |-> EmptyTxt]

NoSpawn ==
  [model |-> "", agentId |-> "", conversationId |-> "", chainIndex |-> 0,
   attempt |-> 0, cause |-> "none"]

\* deployExisting: spawnSubagent was called with an existingAgentId or an
\* existingConversationId (isDeployingExisting, line 1189);
\* unknownType: the subagent type had no configuration; resolverCalls: calls of
\* the model resolution; nSpawns: children spawned; lastSpawn: how the latest was spawned; firstStderr:
\* stderr of the first child when it exited with a failure code; cause: why the
\* executeSubagent call in progress was made; outerAttempts: executeSubagent calls made
\* by the loop; backoffWaits: backoff waits that ran to their end; abortPhase:
\* where the invocation was when the signal fired; kills: SIGTERMs sent;
\* delayListeners: onAbort listeners of waitForRetryDelay attached to the signal
\* (lines 224-230: added with once, which removes them when the signal fires);
\* primaryFallbacks: executeSubagent calls made with the parent's model (line 927);
\* attached: the readline interface (857-865) and the 'close' and 'error' listeners
\* (873-874) of the latest child are attached to a child that has not closed;
\* lines: the lines the running child has printed; close: exit code, lines, stderr
\* (when the exit is handled as a failure exit, lines 892-955) and wasAborted of
\* the latest child that closed since the loop called executeSubagent,
\* until the next child is spawned;
\* frags[id]: the argument fragments received for id in tool-call and
\* approval-request messages; writer[id]: the event that last wrote id's tracker
\* record; fragsAtWrite[id]: how many fragments had been received by then
NoHist ==
  [unknownType |-> FALSE, deployExisting |-> FALSE, resolverCalls |-> 0,
   nSpawns |-> 0, lastSpawn |-> NoSpawn, firstStderr |-> NullTxt, cause |-> "first",
   outerAttempts |-> 0, backoffWaits |-> 0, abortPhase |-> "none",
   spawnsAtAbort |-> 0, kills |-> 0, primaryFallbacks |-> 0, attached |-> FALSE,
   delayListeners |-> 0,
   lines |-> <<>>, close |-> NoClose,
   frags |-> [i \in ToolIds |-> <<>>],
   writer |-> [i \in ToolIds |-> NoLine],
   fragsAtWrite |-> [i \in ToolIds |-> 0]]

\* the part of the state the synchronous stretches of the two functions write
Cur ==
  [pc |-> pc, lastResult |-> lastResult, retryAgentId |-> retryAgentId,
   retryConversationId |-> retryConversationId, exec |-> exec, result |-> result,
   obs |-> obs, hist |-> hist]

\* the parameters of an executeSubagent call are gone once the call has returned
Commit(c) ==
  /\ pc' = c.pc
  /\ lastResult' = c.lastResult
  /\ retryAgentId' = c.retryAgentId
  /\ retryConversationId' = c.retryConversationId
  /\ exec' = IF c.pc \in {"done", "raised", "backoff"} THEN NoExec ELSE c.exec
  /\ result' = c.result
  /\ obs' = c.obs
  /\ hist' = c.hist

\* spawnSubagent resolves with r
Return(c, r) == [c EXCEPT !.pc = "done", !.result = r]
\* an exception leaves spawnSubagent: the promise rejects
Raise(c) == [c EXCEPT !.pc = "raised"]

\* spawnSubagent, lines 1356-1373: after the while loop
AfterLoop(c, att) ==
  IF att > 0
  THEN LET c1 == [c EXCEPT !.obs = Notify(@, "retry-exhausted", "")]
       IN  IF onProgressThrows THEN Raise(c1) ELSE Return(c1, c1.lastResult)
  ELSE Return(c, c.lastResult)

waitForRetryDelayOnAbort_mut(c) == c

\* waitForRetryDelay, lines 226-229 and 234: onAbort clears the timer and resolves;
\* the wait returns false and spawnSubagent returns the interrupted result
waitForRetryDelayOnAbort(c) ==
  Return(c, InterruptedResult(c.retryAgentId, c.retryConversationId))

\* spawnSubagent, lines 1312-1351: the loop body after executeSubagent returned r
LoopAfterResult(c, r, att) ==
  LET c1 == [c EXCEPT !.lastResult = r]
  IN  IF r.success THEN Return(c1, r)
      ELSE IF r.error = INTERRUPTED_BY_USER \/ signalAborted THEN Return(c1, r)
      ELSE IF ~isRetryableSubagentError(r.error) \/ att >= MAX_TRANSIENT_RETRIES
      THEN AfterLoop(c1, att)
      ELSE LET c2 == [c1 EXCEPT
                        !.retryAgentId = IF r.agentId # "" THEN r.agentId ELSE @,
                        !.retryConversationId =
                           IF r.conversationId # "" THEN r.conversationId ELSE @,
                        !.obs = Notify(@, "retry", "")]
           IN  IF onProgressThrows THEN Raise(c2)
               ELSE IF signalAborted THEN waitForRetryDelayOnAbort(c2)
               ELSE [c2 EXCEPT !.pc = "backoff", !.hist.delayListeners = @ + 1]

executeSubagent_mut(c, m, chain, chainIndex, existingAgentId, existingConversationId, att) ==
  IF signalAborted
  THEN LoopAfterResult(c, InterruptedResult("", ""), att)
  ELSE [c EXCEPT !.pc = "await_settings",
                 !.exec = [model |-> m, expansionChain |-> chain,
                           chainIndex |-> chainIndex,
                           existingAgentId |-> existingAgentId,
                           existingConversationId |-> existingConversationId,
                           exitCode |-> 0]]

\* executeSubagent, lines 761-815: from the call to the await before the spawn
executeSubagent(c, m, chain, chainIndex, existingAgentId, existingConversationId, att) ==
  IF signalAborted
  THEN LoopAfterResult(c, InterruptedResult("", ""), att)
  ELSE LET o1 == IF m # "" THEN Notify(updateSubagent(c.obs), "model", m) ELSE c.obs
       IN  IF m # "" /\ onProgressThrows THEN Raise([c EXCEPT !.obs = o1])
           ELSE [c EXCEPT !.obs = o1, !.pc = "await_settings",
                          !.exec = [model |-> m, expansionChain |-> chain,
                                    chainIndex |-> chainIndex,
                                    existingAgentId |-> existingAgentId,
                                    existingConversationId |-> existingConversationId,
                                    exitCode |-> 0]]

FailureResult_mutStderr(st, err, code) ==
  Res(st.agentId, st.conversationId, EmptyTxt, FALSE,
      OrTxt(st.finalError, ExitedWithCodeTxt), NoTokens)

FailureResult_mut(st, err, code) ==
  Res(st.agentId, st.conversationId, EmptyTxt, FALSE, OrTxt(st.finalError, err),
      NoTokens)

\* executeSubagent, lines 946-955
FailureResult(st, err, code) ==
  LET propagatedError == st.finalError
      fallbackError == OrTxt(err, ExitedWithCodeTxt)
  IN  Res(st.agentId, st.conversationId, EmptyTxt, FALSE,
          OrTxt(propagatedError, fallbackError), NoTokens)

ExitZeroResult_mut(st, last) == parseResultFromStdout(last, st.agentId)

\* executeSubagent, lines 958-984: the child exited with code 0
ExitZeroResult(st, last) ==
  IF st.finalResult # NullTxt
  THEN Res(st.agentId, st.conversationId, st.finalResult, ~Truthy(st.finalError),
           IF Truthy(st.finalError) THEN st.finalError ELSE NullTxt,
           st.resultStats.totalTokens)
  ELSE IF Truthy(st.finalError)
  THEN Res(st.agentId, st.conversationId, EmptyTxt, FALSE, st.finalError,
           st.resultStats.totalTokens)
  ELSE parseResultFromStdout(last, st.agentId)

abortHandler_mut == FALSE
\* executeSubagent, lines 836-839: what abortHandler sets wasAborted to
abortHandler == TRUE

isRecoverableError(err) == isProviderNotSupportedError(err) \/ isUnknownModelError(err)

NonZeroExit_mut(exitCode) == TRUE
\* executeSubagent, line 894
NonZeroExit(exitCode) == exitCode # 0

\* the locals of a finished executeSubagent call: state, stdoutChunks, stderrChunks
AttemptLocalsGone ==
  /\ state' = NewExecutionState("", "")
  /\ stderr' = EmptyTxt
  /\ lastLine' = MalformedLine
  /\ nLines' = 0

\* no function has been called
NoCall == [fn |-> "none"]

\* permissions/mode, lines 85-114: the globals before any call; "" stands for null;
\* calls lists the calls made on the manager
NoPermission ==
  [mode |-> "default", planFilePath |-> "", modeBeforePlan |-> "", calls |-> <<>>]

Waiters == {"w1", "w2"}
Loaders == {"loadTools", "loadSpecificTools"}

\* tools/manager, lines 265-270: the lock before any switch, an empty registry, no
\* switch in flight and no caller of waitForToolsetReady.  switches lists the calls
\* in the order they started; the registry holds the number of the switch whose
\* toolset it was last replaced with, 0 when it is empty
NoToolset ==
  [lock |-> [promise |-> 0, resolve |-> 0, refCount |-> 0],
   nPromises |-> 0, settled |-> {}, inFlight |-> [f \in Loaders |-> 0], started |-> 0,
   switches |-> <<>>, registry |-> 0, waiters |-> [w \in Waiters |-> [pc |-> "idle", promise |-> 0]]]

\* no second invocation has started an attempt
NoOther ==
  [pc |-> "none", state |-> NewExecutionState("", ""), obs |-> NoObs, lines |-> <<>>,
   code |-> 0, stderr |-> EmptyTxt, result |-> NoResult]

Init ==
  /\ call = NoCall
  /\ permission = NoPermission
  /\ toolset = NoToolset
  /\ other = NoOther
  /\ pc = "start"
  /\ onProgressThrows \in BOOLEAN
  /\ signalAborted = FALSE
  /\ userModel \in UserModels
  /\ parentModelHandle = ""
  /\ model = ""
  /\ expansionChain = <<>>
  /\ retryAgentId = ""
  /\ retryConversationId = ""
  /\ attempt = 0
  /\ lastResult = NoResult
  /\ exec = NoExec
  /\ wasAborted = FALSE
  /\ abortListener = FALSE
  /\ state = NewExecutionState("", "")
  /\ stderr = EmptyTxt
  /\ lastLine = MalformedLine
  /\ nLines = 0
  /\ result = NoResult
  /\ obs = NoObs
  /\ config = DefaultConfig
  /\ cliArgs = <<>>
  /\ hist = NoHist

UnknownTypeResult_mut == Res("", "", EmptyTxt, FALSE, NullTxt, NoTokens)

\* spawnSubagent, lines 1180-1187: the result for a type without configuration
UnknownTypeResult == Res("", "", EmptyTxt, FALSE, UnknownTypeTxt, NoTokens)

\* existingAgentId and existingConversationId the caller passes
ExistingIds == {<<"", "">>, <<"ag1", "">>, <<"ag1", "cv1">>}

\* spawnSubagent, lines 1177-1193: the subagent type is looked up, then the parent's
\* model handle
LookupConfig ==
  /\ UNCHANGED <<call, permission, toolset, other, config, cliArgs, userModel>>
  /\ pc = "start"
  /\ \E known \in BOOLEAN, existing \in ExistingIds, primary \in PrimaryHandles :
       IF known
       THEN /\ pc' = "resolving"
            /\ parentModelHandle' = primary
            /\ retryAgentId' = existing[1]
            /\ retryConversationId' = existing[2]
            /\ result' = result
            /\ hist' = [hist EXCEPT !.deployExisting = existing # <<"", "">>]
       ELSE /\ pc' = "done"
            /\ result' = UnknownTypeResult
            /\ hist' = [hist EXCEPT !.unknownType = TRUE]
            /\ UNCHANGED <<retryAgentId, retryConversationId, parentModelHandle>>
  /\ UNCHANGED <<onProgressThrows, signalAborted, model, expansionChain, attempt,
                 lastResult, exec, wasAborted, abortListener, state, stderr, lastLine,
                 nLines, obs>>

\* spawnSubagent, lines 1195-1310: the model is resolved and the first attempt starts
Resolve(requestFails) ==
  /\ pc = "resolving"
  /\ \E r \in ResolveForSpawn(userModel, config.modelSelector, parentModelHandle,
                               retryAgentId, retryConversationId, requestFails) :
       /\ model' = r.resolved_handle
       /\ expansionChain' = r.expansion_chain
       /\ Commit(executeSubagent(
                   [Cur EXCEPT !.hist.outerAttempts = @ + 1,
                               !.hist.resolverCalls = @ + 1],
                   r.resolved_handle, r.expansion_chain, 0, retryAgentId,
                   retryConversationId, 0))
  /\ userModel' = ""
  /\ parentModelHandle' = ""
  /\ UNCHANGED <<call, permission, toolset, other, onProgressThrows, signalAborted, attempt, wasAborted, abortListener,
                 state, stderr, lastLine, nLines, config, cliArgs>>

\* the server answers the resolver's request, or the resolver is not called
ResolveModel == Resolve(FALSE)

\* resolveModelSelectorWithChain, lines 1100-1112: the request throws
ResolveModelFallback ==
  /\ CallsResolver(userModel, retryAgentId, retryConversationId)
  /\ Resolve(TRUE)

\* executeSubagent, lines 815-869: the child is spawned and wired
SpawnChild ==
  /\ pc = "await_settings"
  /\ pc' = "running"
  /\ wasAborted' = FALSE
  /\ abortListener' = TRUE
  /\ state' = NewExecutionState(exec.existingAgentId, exec.existingConversationId)
  /\ stderr' = EmptyTxt
  /\ lastLine' = MalformedLine
  /\ nLines' = 0
  /\ hist' = [hist EXCEPT
                !.nSpawns = @ + 1,
                !.lastSpawn = [model |-> exec.model,
                               agentId |-> exec.existingAgentId,
                               conversationId |-> exec.existingConversationId,
                               chainIndex |-> exec.chainIndex,
                               attempt |-> attempt,
                               cause |-> hist.cause],
                !.lines = <<>>,
                !.close = NoClose,
                !.attached = TRUE,
                !.frags = [i \in ToolIds |-> <<>>],
                !.writer = [i \in ToolIds |-> NoLine],
                !.fragsAtWrite = [i \in ToolIds |-> 0]]
  /\ obs' = [obs EXCEPT !.progress = <<>>, !.trackerCalls = 0]
  /\ cliArgs' = buildSubagentArgs(SubagentType, config, exec.model, UserPrompt,
                                  exec.existingAgentId, exec.existingConversationId,
                                  config.maxTurns)
  /\ UNCHANGED <<call, permission, toolset, other, config, userModel, parentModelHandle>>
  /\ UNCHANGED <<onProgressThrows, signalAborted, model, expansionChain, retryAgentId,
                 retryConversationId, attempt, lastResult, exec, result>>

\* executeSubagent, lines 777-832 and 985-992: reading the settings or spawn() throws
SpawnThrows ==
  /\ UNCHANGED <<call, permission, toolset, other, config, cliArgs, userModel, parentModelHandle>>
  /\ pc = "await_settings"
  /\ Commit(LoopAfterResult(Cur, Res("", "", EmptyTxt, FALSE, GenericTxt, NoTokens),
                            attempt))
  /\ UNCHANGED <<onProgressThrows, signalAborted, model, expansionChain, attempt,
                 wasAborted, abortListener, state, stderr, lastLine, nLines>>


\* the argument fragments a line carries for tool call id, in order
ReceivedFrags(line, id) ==
  LET event == Unwrap(line)
      mine == SelectSeq(event.tcs, LAMBDA tc : tc.tool_call_id = id)
  IN  IF event.type = "message" /\
         event.message_type \in {"tool_call_message", "approval_request_message"}
      THEN [i \in 1..Len(mine) |-> mine[i].arguments]
      ELSE <<>>

\* whether processing the line writes tool call id's record in the state tracker
WritesRecord(line, id) ==
  LET probe == [obs EXCEPT !.trackerArgs = [i \in ToolIds |-> <<"probe">>]]
  IN  processStreamEvent(line, state, probe).obs.trackerArgs[id] # <<"probe">>

\* executeSubagent, lines 862-865: readline delivers one line of the child's stdout
StdoutLine(line) ==
  /\ UNCHANGED <<call, permission, toolset, other, config, cliArgs, userModel, parentModelHandle>>
  /\ pc = "running"
  /\ LET r == processStreamEvent(line, state, obs)
     IN  /\ state' = r.state
         /\ obs' = r.obs
  /\ lastLine' = line
  /\ nLines' = nLines + 1
  /\ hist' = [hist EXCEPT
                !.lines = Append(@, line),
                !.frags = [i \in ToolIds |-> @[i] \o ReceivedFrags(line, i)],
                !.writer = [i \in ToolIds |->
                              IF WritesRecord(line, i)
                              THEN Unwrap(line) ELSE @[i]],
                !.fragsAtWrite = [i \in ToolIds |->
                              IF WritesRecord(line, i)
                              THEN Len(hist.frags[i] \o ReceivedFrags(line, i))
                              ELSE @[i]]]
  /\ UNCHANGED <<pc, onProgressThrows, signalAborted, model, expansionChain,
                 retryAgentId, retryConversationId, attempt, lastResult, exec,
                 wasAborted, abortListener, stderr, result>>

\* executeSubagent, lines 871-984: the wait is resolved with an exit code; stderr
\* holds what the child wrote to it; closed: the child and its streams have closed
WaitResolved(codes, closed) ==
  /\ UNCHANGED <<call, permission, toolset, other, config, cliArgs, userModel, parentModelHandle>>
  /\ pc = "running"
  /\ \E code \in codes, err \in StderrTexts :
       LET c0 == [Cur EXCEPT !.hist.attached = ~closed,
                             !.hist.firstStderr =
                                IF hist.nSpawns = 1 /\ code # 0 /\ ~wasAborted
                                THEN err ELSE @,
                             !.hist.lines = <<>>,
                             !.hist.close = [closed |-> TRUE, code |-> code,
                                             aborted |-> wasAborted,
                                             lines |-> hist.lines,
                                             stderr |->
                                               IF wasAborted \/ ~NonZeroExit(code)
                                               THEN EmptyTxt ELSE err]]
           c == IF wasAborted
                THEN LoopAfterResult(
                       c0, InterruptedResult(state.agentId, state.conversationId),
                       attempt)
                ELSE IF NonZeroExit(code)
                THEN IF exec.chainIndex = 0 /\ isRecoverableError(err)
                     THEN IF Len(exec.expansionChain) > 1
                          THEN executeSubagent(
                                 [c0 EXCEPT !.hist.cause = "chain"],
                                 exec.expansionChain[2], exec.expansionChain, 1,
                                 exec.existingAgentId, exec.existingConversationId,
                                 attempt)
                          ELSE [c0 EXCEPT !.pc = "await_primary",
                                          !.exec.exitCode = code]
                     ELSE LoopAfterResult(c0, FailureResult(state, err, code), attempt)
                ELSE LoopAfterResult(c0, ExitZeroResult(state, lastLine), attempt)
       IN  /\ Commit(c)
           /\ IF c.pc = "await_primary"
              THEN /\ stderr' = err
                   /\ UNCHANGED <<state, lastLine, nLines>>
              ELSE AttemptLocalsGone
  /\ abortListener' = FALSE
  /\ UNCHANGED <<onProgressThrows, signalAborted, model, expansionChain, attempt,
                 wasAborted>>

\* line 873: 'close' is emitted, after the child has ended and its streams have
\* closed, or after a child that could not be spawned emitted 'error'
ChildClose == WaitResolved(ExitCodes, TRUE)

\* lines 838 and 874: proc.kill fails and the child, still running, emits 'error';
\* the wait is resolved with null
ChildError == wasAborted /\ WaitResolved({1}, FALSE)

UsePrimaryModel_mut(primaryModelHandle, m) == primaryModelHandle # ""

\* executeSubagent, line 924
UsePrimaryModel(primaryModelHandle, m) ==
  primaryModelHandle # "" /\ primaryModelHandle # m

\* executeSubagent, lines 922-955: getPrimaryAgentModelHandle() answered
PrimaryResolved ==
  /\ UNCHANGED <<call, permission, toolset, other, config, cliArgs, userModel, parentModelHandle>>
  /\ pc = "await_primary"
  /\ \E primaryModelHandle \in PrimaryHandles :
       IF UsePrimaryModel(primaryModelHandle, exec.model)
       THEN Commit(executeSubagent([Cur EXCEPT !.hist.cause = "primary",
                                               !.hist.primaryFallbacks = @ + 1],
                                   primaryModelHandle, <<>>, 0, "", "", attempt))
       ELSE Commit(LoopAfterResult(Cur, FailureResult(state, stderr, exec.exitCode),
                                   attempt))
  /\ AttemptLocalsGone
  /\ UNCHANGED <<onProgressThrows, signalAborted, model, expansionChain, attempt,
                 wasAborted, abortListener>>

\* waitForRetryDelay, lines 223-234, and spawnSubagent, lines 1342-1353 and
\* 1295-1310: the backoff timer fires and the next attempt starts
RetryTimer ==
  /\ UNCHANGED <<call, permission, toolset, other, config, cliArgs, userModel, parentModelHandle>>
  /\ pc = "backoff"
  /\ IF signalAborted
     THEN /\ Commit(waitForRetryDelayOnAbort(Cur))
          /\ attempt' = attempt
     ELSE /\ attempt' = attempt + 1
          /\ LET c == [Cur EXCEPT !.hist.backoffWaits = @ + 1]
             IN  IF attempt + 1 <= MAX_TRANSIENT_RETRIES
                 THEN Commit(executeSubagent(
                               [c EXCEPT !.hist.outerAttempts = @ + 1,
                                         !.hist.cause = "retry",
                                         !.hist.close = NoClose], model,
                               expansionChain, 0, retryAgentId, retryConversationId,
                               attempt + 1))
                 ELSE Commit(AfterLoop(c, attempt + 1))
  /\ UNCHANGED <<onProgressThrows, signalAborted, model, expansionChain, wasAborted,
                 abortListener, state, stderr, lastLine, nLines>>

\* the caller's AbortSignal fires: the listeners registered on it run
Abort ==
  /\ UNCHANGED <<call, permission, toolset, other, config, cliArgs, userModel, parentModelHandle>>
  /\ ~signalAborted
  /\ pc \in {"start", "resolving", "await_settings", "running", "await_primary",
             "backoff"}
  /\ signalAborted' = TRUE
  /\ wasAborted' = IF abortListener THEN abortHandler ELSE wasAborted
  /\ LET c == [Cur EXCEPT !.hist.abortPhase = pc,
                          !.hist.spawnsAtAbort = hist.nSpawns,
                          !.hist.kills = IF abortListener THEN @ + 1 ELSE @,
                          !.hist.delayListeners = 0]
     IN  IF pc = "backoff" THEN Commit(waitForRetryDelayOnAbort(c)) ELSE Commit(c)
  /\ UNCHANGED <<onProgressThrows, model, expansionChain, attempt, abortListener,
                 state, stderr, lastLine, nLines>>

Next ==
  \/ LookupConfig
  \/ ResolveModel
  \/ ResolveModelFallback
  \/ SpawnChild
  \/ SpawnThrows
  \/ \E line \in OrchLines : nLines < MaxOrchLines /\ StdoutLine(line)
  \/ ChildClose
  \/ ChildError
  \/ PrimaryResolved
  \/ RetryTimer
  \/ Abort

Spec == Init /\ [][Next]_vars

(***************************************************************************)
(* The stream of one attempt: every kind of line, in every order           *)
(***************************************************************************)
StreamLines ==
  {MessageLine("tool_call_message", <<ToolCall("t1", "Bash", <<"x">>)>>),
   MessageLine("tool_call_message", <<ToolCall("t1", "", <<"y">>)>>),
   MessageLine("tool_call_message", <<ToolCall("t2", "Bash", <<>>)>>),
   MessageLine("tool_call_message", <<ToolCall("t1", "", <<"x">>),
                                      ToolCall("t2", "Bash", <<"y">>)>>),
   MessageLine("tool_call_message", <<ToolCall("", "Bash", <<"x">>)>>),
   MessageLine("approval_request_message", <<ToolCall("t1", "Bash", <<"x">>)>>),
   MessageLine("approval_request_message", <<ToolCall("t1", "", <<"y">>)>>),
   MessageLine("approval_request_message", <<ToolCall("t2", "Bash", <<>>)>>),
   MessageLine("assistant_message", <<>>),
   AutoApprovalLine(<<ToolCall("t1", "Bash", <<"z">>)>>),
   AutoApprovalLine(<<ToolCall("t2", "Bash", NullStr)>>),
   AutoApprovalLine(<<>>),
   ResultLine(DoneTxt, FALSE, 42),
   ResultLine(RateTxt, TRUE, 7),
   ErrorLine(GenericTxt),
   InitLine("ag1", "cv1"),
   SystemLine("init", "", "cv1"),
   SystemLine("status", "ag1", "cv1"),
   MalformedLine,
   NullLine,
   Wrapped(MessageLine("tool_call_message", <<ToolCall("t1", "Bash", <<"y">>)>>))}

\* a child has just been spawned to deploy an existing agent
StreamInit ==
  /\ call = NoCall
  /\ permission = NoPermission
  /\ toolset = NoToolset
  /\ other = NoOther
  /\ pc = "running"
  /\ onProgressThrows \in BOOLEAN
  /\ signalAborted = FALSE
  /\ userModel = ""
  /\ parentModelHandle = ""
  /\ model = ""
  /\ expansionChain = <<>>
  /\ retryAgentId = "ag1"
  /\ retryConversationId = ""
  /\ attempt = 0
  /\ lastResult = NoResult
  /\ exec = [NoExec EXCEPT !.existingAgentId = "ag1"]
  /\ wasAborted = FALSE
  /\ abortListener = TRUE
  /\ state = NewExecutionState("ag1", "")
  /\ stderr = EmptyTxt
  /\ lastLine = MalformedLine
  /\ nLines = 0
  /\ result = NoResult
  /\ obs = NoObs
  /\ config = DefaultConfig
  /\ cliArgs = buildSubagentArgs(SubagentType, DefaultConfig, "", UserPrompt, "ag1", "", -1)
  /\ hist = [NoHist EXCEPT !.nSpawns = 1, !.outerAttempts = 1, !.attached = TRUE,
                           !.deployExisting = TRUE,
                           !.lastSpawn = [NoSpawn EXCEPT !.agentId = "ag1",
                                                         !.cause = "first"]]

StreamNext == \E line \in StreamLines : nLines < MaxLines /\ StdoutLine(line)

SpecStream == StreamInit /\ [][StreamNext]_vars

(***************************************************************************)
(* One attempt from its first line to the return of executeSubagent        *)
(***************************************************************************)
AttemptLines ==
  {ResultLine(DoneTxt, FALSE, 42),
   ResultLine(RateTxt, TRUE, 7),
   Wrapped(ResultLine(EmptyTxt, FALSE, 0)),
   ErrorLine(GenericTxt),
   InitLine("ag1", "cv1"),
   MessageLine("approval_request_message", <<ToolCall("t1", "Bash", <<"x">>)>>),
   MalformedLine}

AttemptNext ==
  \/ \E line \in AttemptLines : nLines < MaxLines /\ StdoutLine(line)
  \/ ChildClose
  \/ Abort

SpecAttempt == StreamInit /\ [][AttemptNext]_vars

(***************************************************************************)
(* buildSubagentArgs on every configuration                                *)
(***************************************************************************)
\* executeSubagent has been called: spawnSubagent passes a resolved model when it
\* passes no identity (lines 1189-1252, 898-943)
ArgsInit ==
  /\ call = NoCall
  /\ permission = NoPermission
  /\ toolset = NoToolset
  /\ other = NoOther
  /\ pc = "await_settings"
  /\ onProgressThrows = FALSE
  /\ signalAborted = FALSE
  /\ userModel = ""
  /\ parentModelHandle = ""
  /\ \E m \in {"", "p/m1"}, ids \in ExistingIds \cup {<<"", "cv1">>} :
       /\ (ids = <<"", "">> => m # "")
       /\ model = m
       /\ expansionChain = IF ids = <<"", "">> THEN <<m>> ELSE <<>>
       /\ retryAgentId = ids[1]
       /\ retryConversationId = ids[2]
       /\ exec = [NoExec EXCEPT !.model = m, !.expansionChain = expansionChain,
                                !.existingAgentId = ids[1],
                                !.existingConversationId = ids[2]]
  /\ attempt = 0
  /\ lastResult = NoResult
  /\ wasAborted = FALSE
  /\ abortListener = FALSE
  /\ state = NewExecutionState("", "")
  /\ stderr = EmptyTxt
  /\ lastLine = MalformedLine
  /\ nLines = 0
  /\ result = NoResult
  /\ obs = NoObs
  /\ config \in Configs
  /\ cliArgs = <<>>
  /\ hist = [NoHist EXCEPT !.outerAttempts = 1, !.resolverCalls = 1,
                           !.deployExisting =
                              retryAgentId # "" \/ retryConversationId # ""]

SpecArgs == ArgsInit /\ [][SpawnChild]_vars

(***************************************************************************)
(* Model resolution when the resolver's request fails, on every selector   *)
(***************************************************************************)
\* spawnSubagent has looked up the configuration and the parent's model handle
ResolveInit ==
  /\ call = NoCall
  /\ permission = NoPermission
  /\ toolset = NoToolset
  /\ other = NoOther
  /\ pc = "resolving"
  /\ onProgressThrows = FALSE
  /\ signalAborted = FALSE
  /\ userModel \in {"", "group:fast", "inherit", "bogus"}
  /\ parentModelHandle \in PrimaryHandles
  /\ model = ""
  /\ expansionChain = <<>>
  /\ retryAgentId = ""
  /\ retryConversationId = ""
  /\ attempt = 0
  /\ lastResult = NoResult
  /\ exec = NoExec
  /\ wasAborted = FALSE
  /\ abortListener = FALSE
  /\ state = NewExecutionState("", "")
  /\ stderr = EmptyTxt
  /\ lastLine = MalformedLine
  /\ nLines = 0
  /\ result = NoResult
  /\ obs = NoObs
  /\ config \in {[DefaultConfig EXCEPT !.modelSelector = sel] : sel \in Selectors}
  /\ cliArgs = <<>>
  /\ hist = NoHist

SpecResolve == ResolveInit /\ [][ResolveModelFallback]_vars

(***************************************************************************)
(* Properties                                                              *)
(***************************************************************************)
Interrupted(r) == ~r.success /\ r.error = INTERRUPTED_BY_USER

RECURSIVE Flatten(_)
Flatten(frags) == IF frags = <<>> THEN <<>> ELSE Head(frags) \o Flatten(Tail(frags))

ToolNotifications(id) ==
  Cardinality({i \in 1..Len(obs.progress) :
                 obs.progress[i].kind = "tool" /\ obs.progress[i].id = id})

C2_AbortWhileRunning ==
  hist.abortPhase = "running" =>
    /\ hist.kills = 1
    /\ hist.nSpawns = hist.spawnsAtAbort
    /\ pc \in {"running", "done"}
    /\ pc = "done" => Interrupted(result)

C2_Witness ==
  /\ hist.abortPhase = "running"
  /\ pc = "done"
  /\ Interrupted(result)
  /\ result.conversationId = "cv1"

\* C3: once the signal has fired during a backoff wait, the call has resolved
\* (it did not raise) with success = false and "Interrupted by user", and no child
\* has been spawned since, whatever retries were left
C3_AbortDuringBackoff ==
  hist.abortPhase = "backoff" =>
    /\ pc = "done"
    /\ Interrupted(result)
    /\ hist.nSpawns = hist.spawnsAtAbort

C3_Witness ==
  /\ hist.abortPhase = "backoff"
  /\ pc = "done"
  /\ attempt = 0
  /\ Interrupted(result)

\* C4: when the signal fired before the attempt's child was spawned, no child is
\* spawned afterwards
C4_NoSpawnAfterEarlyAbort ==
  hist.abortPhase \in {"start", "resolving", "await_settings", "await_primary"} =>
    hist.nSpawns = hist.spawnsAtAbort

\* C5: when the first child failed with a rate-limit text on stderr and the
\* expansion chain has two entries, at most one more child is spawned, and it is
\* spawned at the chain's second entry
C5_OneFurtherAttemptAtSecondEntry ==
  (isRateLimitError(hist.firstStderr) /\ Len(expansionChain) = 2) =>
    /\ hist.nSpawns <= 2
    /\ hist.nSpawns = 2 => hist.lastSpawn.model = expansionChain[2]

\* C6: the child spawned after a first attempt that failed as rate limited, with
\* a second chain entry remaining, runs the second entry with a fresh identity
C6_RateLimitAdvancesChainFresh ==
  (/\ hist.nSpawns = 2
   /\ hist.lastSpawn.cause = "retry"
   /\ pc = "running"
   /\ isRateLimitError(lastResult.error)
   /\ Len(expansionChain) = 2) =>
    /\ hist.lastSpawn.model = expansionChain[2]
    /\ hist.lastSpawn.agentId = ""
    /\ hist.lastSpawn.conversationId = ""

\* C7: the loop calls executeSubagent at most 1 + 2 times, every call after the
\* first follows one completed backoff wait, a backoff is only entered after a
\* rate-limit or transient-transport failure, and when the retries are used up
\* the call resolves with the result of the last attempt
C7_BoundedRetries ==
  /\ hist.outerAttempts <= 1 + 2
  /\ hist.outerAttempts >= 1 => hist.backoffWaits = hist.outerAttempts - 1
  /\ pc = "backoff" => isRetryableSubagentError(lastResult.error)
  /\ (pc = "done" /\ hist.outerAttempts = 1 + 2) => result = lastResult

C7_Witness ==
  /\ pc = "done"
  /\ hist.outerAttempts = 3
  /\ hist.backoffWaits = 2
  /\ hist.abortPhase = "none"
  /\ ~result.success
  /\ isRateLimitError(result.error)

\* C8: within one attempt every tool call id is added to the state tracker and
\* notified to the progress callback at most once, exactly once when it has been
\* reported, whatever lines mention it
C8_ToolCallReportedOnce ==
  \A id \in ToolIds :
    /\ obs.trackerAdds[id] <= 1
    /\ ToolNotifications(id) = obs.trackerAdds[id]
    /\ (id \in state.displayedToolCalls) <=> (obs.trackerAdds[id] = 1)

C8_Witness ==
  /\ nLines = 3
  /\ lastLine = ResultLine(DoneTxt, FALSE, 42)
  /\ hist.writer["t1"].type = "auto_approval"
  /\ PendingGet(state.pendingToolCalls, "t1").name = "Bash"
  /\ ToolNotifications("t1") = 1

C10_UnparseableLineIsNoOp ==
  [][(nLines' = nLines + 1 /\ lastLine'.type \in {"malformed", "null"}) =>
       (state' = state /\ obs' = obs /\ pc' = pc /\ result' = result)]_vars

C10_Witness ==
  /\ nLines = 3
  /\ lastLine = MalformedLine
  /\ state.pendingToolCalls # <<>>
  /\ state.displayedToolCalls # {}
  /\ pc = "running"

\* C11: a call for a subagent type without configuration has resolved with
\* success = false and the error "Unknown subagent type", has spawned no child and
\* has not called the model resolution
C11_UnknownTypeFailsAtOnce ==
  hist.unknownType =>
    /\ pc = "done"
    /\ ~result.success
    /\ result.error = {Tok("unknown subagent type", "cap")}
    /\ result.report = EmptyTxt
    /\ hist.nSpawns = 0
    /\ hist.resolverCalls = 0
    /\ hist.outerAttempts = 0

C11_Witness ==
  /\ hist.unknownType
  /\ pc = "done"
  /\ result.error = UnknownTypeTxt
  /\ hist.nSpawns = 0

\* the events of the lines, and among them the result events
Events(lines) == [i \in 1..Len(lines) |-> Unwrap(lines[i])]
ResultEvents(lines) == SelectSeq(Events(lines), LAMBDA e : e.type = "result")
ErrorSeen(lines) ==
  \E i \in 1..Len(lines) :
    \/ Events(lines)[i].type = "error"
    \/ Events(lines)[i].type = "result" /\ Events(lines)[i].is_error
\* the latest executeSubagent call returned when its child closed with code 0,
\* the abort handler not having run; lastResult is what it returned
ReturnedAtExitZero ==
  /\ pc \in {"done", "backoff", "raised"}
  /\ hist.close.closed
  /\ hist.close.code = 0
  /\ ~hist.close.aborted

\* C12 as stated: when the child printed a non-error result event with text r
\* and total_tokens t and exited with code 0, and the call was never cancelled,
\* the call resolves with success = true, report = r and totalTokens = t
C12_ResultEventGivesSuccess ==
  (ReturnedAtExitZero /\ pc = "done" /\ hist.abortPhase = "none") =>
    \A i \in 1..Len(hist.close.lines) :
      LET e == Events(hist.close.lines)[i]
      IN  (e.type = "result" /\ ~e.is_error) =>
            /\ result.success
            /\ result.report = OrTxt(e.text, EmptyTxt)
            /\ result.totalTokens = e.total_tokens

\* C12: when the child exited with code 0 after printing a result event and the
\* abort handler did not run, the attempt's result carries the text and
\* total_tokens of the last result event as report and totalTokens; it has
\* success = true and no error exactly when the child printed no error event and
\* no error result, otherwise success = false and an error; and a successful
\* attempt's result is what spawnSubagent resolves with
C12_LastResultEventReported ==
  (ReturnedAtExitZero /\ ResultEvents(hist.close.lines) # <<>>) =>
    LET results == ResultEvents(hist.close.lines)
        e == results[Len(results)]
    IN  /\ lastResult.report = OrTxt(e.text, EmptyTxt)
        /\ lastResult.totalTokens = e.total_tokens
        /\ lastResult.success <=> ~ErrorSeen(hist.close.lines)
        /\ lastResult.success => lastResult.error = NullTxt
        /\ ~lastResult.success => Truthy(lastResult.error)
        /\ lastResult.success => (pc = "done" /\ result = lastResult)

C12_Witness ==
  /\ ReturnedAtExitZero
  /\ hist.close.lines = <<InitLine("ag1", "cv1"), ResultLine(DoneTxt, FALSE, 42)>>
  /\ result = Res("ag1", "cv1", DoneTxt, TRUE, NullTxt, 42)

\* C13: a progress callback that throws never makes spawnSubagent raise
C13_CallbackNeverAborts == pc # "raised"

\* the latest child's argument vector holds the flag; the argument after it
Has(flag) == \E i \in 1..Len(cliArgs) : cliArgs[i] = Arg(flag)
ValueOf(flag) ==
  LET i == CHOOSE j \in 1..Len(cliArgs) : cliArgs[j] = Arg(flag)
  IN  IF i < Len(cliArgs) THEN cliArgs[i + 1] ELSE <<>>
NewIdentityMode ==
  /\ Has("--new-agent")
  /\ Has("--system") /\ ValueOf("--system") = Arg(SubagentType)
  /\ Has("--model") /\ ValueOf("--model") = Arg(hist.lastSpawn.model)
  /\ ~Has("--conv") /\ ~Has("--agent") /\ ~Has("--new")
AttachMode ==
  /\ ~Has("--new-agent") /\ ~Has("--system") /\ ~Has("--model")
  /\ \/ /\ Has("--conv")
        /\ ValueOf("--conv") = Arg(hist.lastSpawn.conversationId)
        /\ ~Has("--agent") /\ ~Has("--new")
     \/ /\ Has("--agent")
        /\ ValueOf("--agent") = Arg(hist.lastSpawn.agentId)
        /\ Has("--new")
        /\ ~Has("--conv")

\* C20: every argument vector is in exactly one of two modes: new identity
\* (--new-agent, --system <type>, --model <resolved model>, no identity argument)
\* or attach (--conv <conversationId> alone, or --agent <agentId> --new, and neither
\* --system nor --model); new identity is the mode exactly when no identity was
\* passed, --conv is used whenever a conversationId was passed, and --init-blocks
\* appears only in new-identity mode
C20_TwoArgumentModes ==
  hist.nSpawns > 0 =>
    /\ NewIdentityMode # AttachMode
    /\ NewIdentityMode <=>
         (hist.lastSpawn.agentId = "" /\ hist.lastSpawn.conversationId = "")
    /\ Has("--conv") <=> hist.lastSpawn.conversationId # ""
    /\ Has("--init-blocks") => NewIdentityMode

\* an agent whose model is known is attached to, under a configuration that
\* filters memory blocks
C20_Witness ==
  /\ pc = "running"
  /\ hist.lastSpawn.agentId = "ag1"
  /\ hist.lastSpawn.conversationId = ""
  /\ hist.lastSpawn.model = "p/m1"
  /\ config.memoryBlocks.kind = "none"
  /\ AttachMode
  /\ ~Has("--init-blocks")

\* C14: a child started by advancing the model chain or by falling back to the
\* parent's model is started in new-identity mode, with no agentId and no
\* conversationId
C14_ModelSwitchStartsFresh ==
  hist.lastSpawn.cause \in {"chain", "primary"} =>
    /\ hist.lastSpawn.agentId = ""
    /\ hist.lastSpawn.conversationId = ""
    /\ NewIdentityMode

\* C15: a child is started by chain advancement or parent-model fallback only
\* after the first attempt of the invocation failed: it is the second child, and
\* no backoff retry came before it
C15_SwitchOnlyAfterFirstAttempt ==
  hist.lastSpawn.cause \in {"chain", "primary"} =>
    /\ hist.nSpawns = 2
    /\ hist.lastSpawn.attempt = 0

\* C16: one invocation falls back to the parent agent's model at most once
C16_ParentFallbackOnce == hist.primaryFallbacks <= 1

\* C17: a child runs a model other than the previous child's only when the
\* previous child has closed and its attempt failed: for a chain advancement or a
\* parent-model fallback the child exited with a non-zero code without having been
\* aborted, for a backoff retry the attempt's result was a failure; while a child
\* runs the model of the call does not change and no child is spawned; after a
\* successful attempt no child is spawned
C17_ModelChangesOnlyAfterFailure ==
  [][/\ (/\ hist'.nSpawns = hist.nSpawns + 1
         /\ hist.nSpawns >= 1
         /\ hist'.lastSpawn.model # hist.lastSpawn.model) =>
           /\ pc = "await_settings"
           /\ ~abortListener
           /\ hist'.lastSpawn.cause \in {"chain", "primary", "retry"}
           /\ hist'.lastSpawn.cause \in {"chain", "primary"} =>
                /\ hist.close.closed
                /\ hist.close.code # 0
                /\ ~hist.close.aborted
           /\ hist'.lastSpawn.cause = "retry" =>
                /\ lastResult # NoResult
                /\ ~lastResult.success
     /\ (pc = "running" /\ pc' = "running") =>
           /\ exec' = exec
           /\ hist'.nSpawns = hist.nSpawns
     /\ (lastResult # NoResult /\ lastResult.success) =>
           /\ hist'.nSpawns = hist.nSpawns
           /\ exec' = exec]_vars

\* the second child runs the next model of the chain after the first one exited
\* with a model error
C17_Witness ==
  /\ pc = "running"
  /\ hist.nSpawns = 2
  /\ hist.lastSpawn.cause = "chain"
  /\ hist.lastSpawn.model = "p/m2"
  /\ isRecoverableError(hist.firstStderr)

\* executeSubagent returns its result to the loop of spawnSubagent in this step
ReturnsToLoop ==
  /\ pc \in {"resolving", "await_settings", "running", "await_primary"}
  /\ pc' \in {"done", "backoff", "raised"}
  /\ lastResult' # NoResult

\* C18: when an attempt returns a failure whose error matches no rate-limit and
\* no transient-transport phrase, spawnSubagent returns that failure in the same
\* step: no backoff wait begins, and after the return no child is spawned and no
\* backoff wait runs
C18_NonRetryableFailureIsTerminal ==
  [][/\ (/\ ReturnsToLoop
         /\ ~lastResult'.success
         /\ ~isRateLimitError(lastResult'.error)
         /\ ~isTransientTransportError(lastResult'.error)) =>
           /\ pc' = "done"
           /\ result' = lastResult'
           /\ hist'.backoffWaits = hist.backoffWaits
           /\ hist'.nSpawns = hist.nSpawns
     /\ pc = "done" =>
           /\ hist'.nSpawns = hist.nSpawns
           /\ hist'.backoffWaits = hist.backoffWaits
           /\ hist'.outerAttempts = hist.outerAttempts
           /\ result' = result]_vars

\* the first child exited with a non-zero code and a stderr that is neither a
\* rate limit, a transport error nor a model error, and spawnSubagent returned
C18_Witness ==
  /\ pc = "done"
  /\ hist.close.closed
  /\ hist.close.code # 0
  /\ ~result.success
  /\ result.error = GenericTxt
  /\ hist.nSpawns = 1
  /\ hist.backoffWaits = 0

\* the resolution made in this step, whose request to the server failed
ResolvedByFallback == pc = "resolving" /\ pc' # "resolving"

\* C19 as stated: when the resolver's request fails, the resolution does not
\* throw and gives a single-element chain whose handle is the parent handle if
\* present, else the first concrete token of the selector, else the default model
C19_FallbackIsFirstConcreteToken ==
  [][ResolvedByFallback =>
       LET selector == SelectorFor(userModel, config)
           concrete == SelectSeq(selector, isConcreteModelSelector)
       IN  /\ pc' = "await_settings"
           /\ expansionChain' = <<model'>>
           /\ ~isSelector(model')
           /\ model' = IF parentModelHandle # "" THEN parentModelHandle
                       ELSE IF concrete # <<>> THEN Head(concrete)
                       ELSE getDefaultModel]_vars

\* C19: when the resolver's request fails, the resolution does not throw and
\* gives a single-element chain whose handle is never a group:, inherit or any
\* token and is the parent handle if present; else it comes from the first concrete
\* entry that is a full handle or resolves to one: the entry itself when it contains
\* "/", else the handle the entry resolves to, the concrete entries before it being
\* ids that resolve to nothing; else, no concrete entry being a full handle or
\* resolving, it is the default model
C19_FallbackIsFirstResolvableEntry ==
  [][ResolvedByFallback =>
       LET selector == SelectorFor(userModel, config)
           Skipped(j) == isConcreteModelSelector(selector[j]) =>
                           /\ selector[j] \notin SlashHandles
                           /\ resolveModel(selector[j]) = ""
                           /\ "" \in resolveModelAsync(selector[j])
       IN  /\ pc' = "await_settings"
           /\ expansionChain' = <<model'>>
           /\ model' # ""
           /\ ~isSelector(model')
           /\ parentModelHandle # "" => model' = parentModelHandle
           /\ parentModelHandle = "" =>
                \/ \E i \in 1..Len(selector) :
                     /\ isConcreteModelSelector(selector[i])
                     /\ \A j \in 1..(i - 1) : Skipped(j)
                     /\ IF selector[i] \in SlashHandles THEN model' = selector[i]
                        ELSE model' \in resolveModelAsync(selector[i])
                \/ /\ model' = getDefaultModel
                   /\ \A j \in 1..Len(selector) : Skipped(j)]_vars

\* without a parent handle, the selector's first entry resolved to nothing and its
\* second entry, an id, was resolved to its handle from the server's model list
C19_Witness ==
  /\ pc = "await_settings"
  /\ hist.resolverCalls = 1
  /\ config.modelSelector = <<"bogus", "m2">>
  /\ model = "p/m2"
  /\ expansionChain = <<"p/m2">>

\* C21: every child of an invocation called with an existing agentId or
\* conversationId attaches to an existing identity: its argument vector is in
\* attach mode, with no --model and no --system argument
C21_ExistingIdentityKept ==
  (hist.deployExisting /\ hist.nSpawns > 0) =>
    /\ AttachMode
    /\ hist.lastSpawn.agentId # "" \/ hist.lastSpawn.conversationId # ""

\* the child closed with code 0, unaborted, having printed neither a result
\* event nor an error event
ExitZeroWithoutTerminalEvent ==
  /\ ReturnedAtExitZero
  /\ ResultEvents(hist.close.lines) = <<>>
  /\ ~ErrorSeen(hist.close.lines)

\* C22: when the child exits with code 0 and no result or error event was
\* processed, the attempt completes and spawnSubagent returns its result: a failure
\* with an empty report whose error is the synthesized "Failed to parse subagent
\* output" when there is no last line or it is not a JSON object, and "Unexpected
\* output format from subagent" otherwise
C22_ExitZeroWithoutTerminalEvent ==
  ExitZeroWithoutTerminalEvent =>
    LET lines == hist.close.lines
    IN  /\ pc = "done"
        /\ result = lastResult
        /\ ~result.success
        /\ result.report = EmptyTxt
        /\ result.error =
             IF lines = <<>> \/ lines[Len(lines)].type \in {"malformed", "null"}
             THEN FailedToParseTxt ELSE UnexpectedFormatTxt

\* the child printed its init event only and exited with code 0
C22_Witness ==
  /\ ExitZeroWithoutTerminalEvent
  /\ hist.close.lines = <<InitLine("ag1", "cv1")>>
  /\ result = Res("ag1", "", EmptyTxt, FALSE, UnexpectedFormatTxt, NoTokens)

\* the latest executeSubagent call returned a failure when its child closed with
\* a non-zero code, unaborted, having printed neither a result event nor an error
\* event; lastResult is what it returned
FailureExitWithoutTerminalEvent ==
  /\ pc \in {"done", "backoff", "raised"}
  /\ hist.close.closed
  /\ hist.close.code # 0
  /\ ~hist.close.aborted
  /\ hist.cause = hist.lastSpawn.cause
  /\ ResultEvents(hist.close.lines) = <<>>
  /\ ~ErrorSeen(hist.close.lines)

\* C23 as stated: when the child exits with a non-zero code and no terminal event
\* was captured, the attempt is a failure with an empty report whose error is the
\* captured standard error
C23_ErrorIsStderr ==
  FailureExitWithoutTerminalEvent =>
    /\ ~lastResult.success
    /\ lastResult.report = EmptyTxt
    /\ lastResult.error = hist.close.stderr

\* C23: when the child exits with a non-zero code and no terminal event was
\* captured, and the exit does not start a child on another model, the attempt is
\* a failure with an empty report whose error is the captured standard error, or
\* "Subagent exited with code <code>" when standard error is empty
C23_ErrorIsStderrOrExitCode ==
  FailureExitWithoutTerminalEvent =>
    /\ ~lastResult.success
    /\ lastResult.report = EmptyTxt
    /\ lastResult.totalTokens = NoTokens
    /\ lastResult.error =
         IF hist.close.stderr # EmptyTxt THEN hist.close.stderr
         ELSE ExitedWithCodeTxt

\* the child printed its init event and exited with code 1 and an empty stderr
C23_Witness ==
  /\ FailureExitWithoutTerminalEvent
  /\ hist.close.lines = <<InitLine("ag1", "cv1")>>
  /\ hist.close.stderr = EmptyTxt
  /\ lastResult = Res("ag1", "cv1", EmptyTxt, FALSE, ExitedWithCodeTxt, NoTokens)

\* C24: the abort listener, the line reader and the exit watcher of a child are
\* attached while executeSubagent waits for the child, and none of them is attached
\* once the wait is over, whichever way the attempt ends
C24_HandlesReleased ==
  hist.nSpawns > 0 =>
    IF pc = "running" THEN abortListener /\ hist.attached
    ELSE ~abortListener /\ ~hist.attached

\* s is t with some elements left out
RECURSIVE IsSubseq(_, _)
IsSubseq(s, t) ==
  IF s = <<>> THEN TRUE
  ELSE IF t = <<>> THEN FALSE
  ELSE IF Head(s) = Head(t) THEN IsSubseq(Tail(s), Tail(t))
  ELSE IsSubseq(s, Tail(t))

\* C25: each line of the child is processed on its own, after the lines emitted
\* before it; the notifications it causes are delivered after all those of the
\* earlier lines, and among themselves in the order of their causes: an init event
\* notifies its ids, a tool-call message or auto-approval notifies tool calls in the
\* order the event lists them, a non-error result notifies the buffered tool calls
\* in the order they were first buffered; no other line notifies anything
C25_NotificationsInEventOrder ==
  [][nLines' = nLines + 1 =>
       LET event == Unwrap(lastLine')
           old == Len(obs.progress)
           new == SubSeq(obs'.progress, old + 1, Len(obs'.progress))
           newIds == [i \in 1..Len(new) |-> new[i].id]
           listed == [i \in 1..Len(event.tcs) |-> event.tcs[i].tool_call_id]
           buffered == [i \in 1..Len(state.pendingToolCalls) |->
                          state.pendingToolCalls[i].id]
       IN  /\ hist'.lines = Append(hist.lines, lastLine')
           /\ Len(obs'.progress) >= old
           /\ SubSeq(obs'.progress, 1, old) = obs.progress
           /\ \A i \in 1..Len(new) :
                IF event.type = "init" \/ (event.type = "system" /\ event.subtype = "init")
                THEN new[i].kind = "ids" /\ Len(new) = 1
                ELSE new[i].kind = "tool"
           /\ CASE event.type = "message" /\ event.message_type = "tool_call_message" ->
                     IsSubseq(newIds, listed)
                [] event.type = "auto_approval" -> IsSubseq(newIds, listed)
                [] event.type = "result" /\ ~event.is_error -> IsSubseq(newIds, buffered)
                [] event.type \in {"init", "system"} -> TRUE
                [] OTHER -> new = <<>>]_vars

\* two tool calls were buffered by approval requests, t2 before t1, and the
\* result event reported them in that order
C25_Witness ==
  /\ ~onProgressThrows
  /\ nLines = 3
  /\ lastLine = ResultLine(DoneTxt, FALSE, 42)
  /\ obs.progress = <<[kind |-> "tool", id |-> "t2"], [kind |-> "tool", id |-> "t1"]>>

(***************************************************************************)
(* Two spawnSubagent invocations with an attempt in flight at the same     *)
(* time: the lines of the two children interleave in every order           *)
(***************************************************************************)
MaxConcLines == 2

ConcLines ==
  {ResultLine(DoneTxt, FALSE, 42),
   ErrorLine(GenericTxt),
   InitLine("ag2", "cv2")}

CapturedState_mut(own, others) == others

\* executeSubagent, lines 846-865: the line listener closes over the state constant
\* of the executeSubagent call that registered it
CapturedState(own, others) == own

\* executeSubagent, lines 820-865: the second invocation spawns its child and
\* creates the attempt's ExecutionState
OtherSpawn ==
  /\ other.pc = "none"
  /\ other' = [other EXCEPT !.pc = "running", !.state = NewExecutionState("", "")]
  /\ UNCHANGED <<call, permission, toolset, pc, onProgressThrows, signalAborted, userModel,
                 parentModelHandle, model, expansionChain, retryAgentId, retryConversationId, attempt,
                 lastResult, exec, wasAborted, abortListener, state, stderr, lastLine,
                 nLines, result, obs, config, cliArgs, hist>>

\* executeSubagent, lines 862-865: a line of the second invocation's child
OtherLine(line) ==
  /\ other.pc = "running"
  /\ Len(other.lines) < MaxConcLines
  /\ LET r == processStreamEvent(line, CapturedState(other.state, state), other.obs)
     IN  other' = [other EXCEPT !.state = r.state, !.obs = r.obs,
                                !.lines = Append(@, line)]
  /\ UNCHANGED <<call, permission, toolset, pc, onProgressThrows, signalAborted, userModel,
                 parentModelHandle, model, expansionChain, retryAgentId, retryConversationId, attempt,
                 lastResult, exec, wasAborted, abortListener, state, stderr, lastLine,
                 nLines, result, obs, config, cliArgs, hist>>

\* executeSubagent, lines 871-984: the second invocation's child closes and its
\* attempt returns; the attempt's ExecutionState is gone
OtherClose ==
  /\ other.pc = "running"
  /\ \E code \in ExitCodes, err \in StderrTexts :
       LET last == IF other.lines = <<>> THEN MalformedLine
                   ELSE other.lines[Len(other.lines)]
       IN  other' = [other EXCEPT
                       !.pc = "closed",
                       !.code = code,
                       !.stderr = IF NonZeroExit(code) THEN err ELSE EmptyTxt,
                       !.state = NewExecutionState("", ""),
                       !.result = IF NonZeroExit(code)
                                  THEN FailureResult(other.state, err, code)
                                  ELSE ExitZeroResult(other.state, last)]
  /\ UNCHANGED <<call, permission, toolset, pc, onProgressThrows, signalAborted, userModel,
                 parentModelHandle, model, expansionChain, retryAgentId, retryConversationId, attempt,
                 lastResult, exec, wasAborted, abortListener, state, stderr, lastLine,
                 nLines, result, obs, config, cliArgs, hist>>

ConcurrentNext ==
  \/ \E line \in ConcLines : nLines < MaxConcLines /\ StdoutLine(line)
  \/ ChildClose
  \/ OtherSpawn
  \/ \E line \in ConcLines : OtherLine(line)
  \/ OtherClose

SpecConcurrent == StreamInit /\ [][ConcurrentNext]_vars

\* the ExecutionState an attempt that started with st has after the lines alone
RECURSIVE Replay(_, _)
Replay(lines, st) ==
  IF lines = <<>> THEN st
  ELSE processStreamEvent(lines[Len(lines)],
                          Replay(SubSeq(lines, 1, Len(lines) - 1), st), NoObs).state

LastOf(lines) == IF lines = <<>> THEN MalformedLine ELSE lines[Len(lines)]

\* the result of an attempt that started with st, read lines and closed with code
AloneResult(lines, st, code, err) ==
  IF NonZeroExit(code) THEN FailureResult(Replay(lines, st), err, code)
  ELSE ExitZeroResult(Replay(lines, st), LastOf(lines))

MaxSwitches == 2

\* every variable of the spawnSubagent invocation
invocation ==
  <<other, pc, onProgressThrows, signalAborted, userModel, parentModelHandle, model,
    expansionChain, retryAgentId, retryConversationId, attempt, lastResult, exec,
    wasAborted, abortListener, state, stderr, lastLine, nLines, result, obs, config,
    cliArgs, hist>>

\* lines 280-290
acquireSwitchLock(t) ==
  LET t1 == [t EXCEPT !.lock.refCount = @ + 1]
  IN  IF t1.lock.refCount = 1
      THEN [t1 EXCEPT !.nPromises = @ + 1,
                      !.lock.promise = t.nPromises + 1,
                      !.lock.resolve = t.nPromises + 1]
      ELSE t1

releaseSwitchLock_mut(t) ==
  LET t1 == IF t.lock.refCount > 0 THEN [t EXCEPT !.lock.refCount = @ - 1] ELSE t
  IN  IF t1.lock.resolve # 0
      THEN [t1 EXCEPT !.settled = @ \cup {t1.lock.resolve},
                      !.lock.promise = 0,
                      !.lock.resolve = 0]
      ELSE t1

\* lines 296-309
releaseSwitchLock(t) ==
  LET t1 == IF t.lock.refCount > 0 THEN [t EXCEPT !.lock.refCount = @ - 1] ELSE t
  IN  IF t1.lock.refCount = 0 /\ t1.lock.resolve # 0
      THEN [t1 EXCEPT !.settled = @ \cup {t1.lock.resolve},
                      !.lock.promise = 0,
                      !.lock.resolve = 0]
      ELSE t1

\* the calls that have taken the lock and not yet released it
Loading(t) == {i \in 1..Len(t.switches) : t.switches[i].status = "loading"}

\* loadTools, lines 554-559, and loadSpecificTools, lines 491-497: the call takes
\* the lock and suspends at its first await
LoadStart(f) ==
  /\ toolset.started < MaxSwitches
  /\ toolset' = [acquireSwitchLock(toolset) EXCEPT
                   !.started = @ + 1,
                   !.inFlight[f] = @ + 1,
                   !.switches = Append(@, [fn |-> f, status |-> "loading",
                                            overlaps |-> Loading(toolset)])]
  /\ UNCHANGED <<invocation, call, permission>>

\* loadTools, lines 560-656, and loadSpecificTools, lines 498-542: the registry is
\* replaced unless the load threw, and the lock is released in the finally block
LoadFinish(f) ==
  /\ toolset.inFlight[f] > 0
  /\ \E i \in Loading(toolset), threw \in BOOLEAN :
       /\ toolset.switches[i].fn = f
       /\ toolset' = releaseSwitchLock(
                       [toolset EXCEPT
                          !.inFlight[f] = @ - 1,
                          !.switches[i].status = IF threw THEN "threw" ELSE "done",
                          !.registry = IF threw THEN @ ELSE i])
  /\ UNCHANGED <<invocation, call, permission>>

\* lines 1322-1329
clearToolsWithLock ==
  /\ toolset.started < MaxSwitches
  /\ toolset' = releaseSwitchLock(
                  [acquireSwitchLock(toolset) EXCEPT
                     !.started = @ + 1,
                     !.switches = Append(@, [fn |-> "clearToolsWithLock", status |-> "done",
                                              overlaps |-> Loading(toolset)]),
                     !.registry = 0])
  /\ UNCHANGED <<invocation, call, permission>>

\* waitForToolsetReady, lines 316-321, up to the await or the return
waitForToolsetReady(w) ==
  /\ toolset.waiters[w].pc = "idle"
  /\ toolset' = [toolset EXCEPT
                   !.waiters[w] = IF toolset.lock.promise # 0
                                  THEN [pc |-> "awaiting", promise |-> toolset.lock.promise]
                                  ELSE [pc |-> "resolved", promise |-> 0]]
  /\ UNCHANGED <<invocation, call, permission>>

\* waitForToolsetReady, lines 319-321: the awaited promise has been resolved and the
\* continuation runs as a job of its own; the call resolves
WaitResumes(w) ==
  /\ toolset.waiters[w].pc = "awaiting"
  /\ toolset.waiters[w].promise \in toolset.settled
  /\ toolset' = [toolset EXCEPT !.waiters[w] = [pc |-> "resolved", promise |-> 0]]
  /\ UNCHANGED <<invocation, call, permission>>

\* the caller goes on after the wait and may wait again later
CallerContinues(w) ==
  /\ toolset.waiters[w].pc = "resolved"
  /\ toolset' = [toolset EXCEPT !.waiters[w] = [pc |-> "idle", promise |-> 0]]
  /\ UNCHANGED <<invocation, call, permission>>

ToolsetNext ==
  \/ \E f \in Loaders : LoadStart(f)
  \/ \E f \in Loaders : LoadFinish(f)
  \/ clearToolsWithLock
  \/ \E w \in Waiters : waitForToolsetReady(w)
  \/ \E w \in Waiters : WaitResumes(w)
  \/ \E w \in Waiters : CallerContinues(w)

\* no spawnSubagent invocation is in progress: only the module under study acts
ToolsetInit == Init /\ ~onProgressThrows /\ userModel = ""

SpecToolset == ToolsetInit /\ [][ToolsetNext]_vars

\* C27: whenever a call to waitForToolsetReady resolves, the reference count of
\* the switch lock is 0
C27_ReadyMeansNoSwitch ==
  [][\A w \in Waiters :
       (toolset.waiters[w].pc # "resolved" /\ toolset'.waiters[w].pc = "resolved")
         => toolset'.lock.refCount = 0]_vars

Succeeded(r) == r # NoResult /\ r.success

\* C28: an attempt's result has success = true only if the child closed with code
\* 0 without the abort handler having run, printed a result event, and printed no
\* error event and no error result anywhere in its output, before or after the
\* result event
C28_SuccessNeedsCleanRun ==
  (Succeeded(lastResult) \/ Succeeded(result)) =>
    /\ hist.close.closed /\ hist.close.code = 0 /\ ~hist.close.aborted
    /\ ResultEvents(hist.close.lines) # <<>>
    /\ ~ErrorSeen(hist.close.lines)
    /\ result = lastResult /\ pc = "done"

\* a successful attempt whose only result event carries an empty text, after a
\* line that is no event at all
C28_Witness ==
  /\ Succeeded(result)
  /\ hist.close.lines = <<MalformedLine, Wrapped(ResultLine(EmptyTxt, FALSE, 0))>>
  /\ result.report = EmptyTxt

\* the ids the event lists, and the ids the attempt has buffered
ListedIds(event) == {event.tcs[i].tool_call_id : i \in 1..Len(event.tcs)}
BufferedIds(st) == {st.pendingToolCalls[i].id : i \in 1..Len(st.pendingToolCalls)}

\* C29: an approval-request message reaches neither the progress callback nor the
\* state tracker and reports no tool call; a tool call becomes reported only while
\* an auto-approval or a tool-call message that lists its id is processed, or while
\* a non-error result is processed and the call is in the buffer; an error result
\* reports no tool call and adds no tool-call record
C29_ApprovalRequestOnlyBuffers ==
  [][nLines' = nLines + 1 =>
       LET event == Unwrap(lastLine')
           surfaced == state'.displayedToolCalls \ state.displayedToolCalls
       IN  /\ (event.type = "message" /\ event.message_type = "approval_request_message")
                => /\ obs' = obs
                   /\ surfaced = {}
                   /\ BufferedIds(state') = BufferedIds(state) \cup (ListedIds(event) \ {""})
           /\ \A id \in surfaced :
                \/ /\ event.type = "auto_approval"
                   /\ id \in ListedIds(event)
                \/ /\ event.type = "message" /\ event.message_type = "tool_call_message"
                   /\ id \in ListedIds(event)
                \/ /\ event.type = "result" /\ ~event.is_error
                   /\ id \in BufferedIds(state)
           /\ (event.type = "result" /\ event.is_error)
                => /\ surfaced = {}
                   /\ obs'.progress = obs.progress
                   /\ obs'.trackerAdds = obs.trackerAdds
                   /\ obs'.trackerArgs = obs.trackerArgs]_vars

\* t1 was buffered by an approval request, an error result left it unreported,
\* and the auto-approval after it reported it
C29_Witness ==
  /\ ~onProgressThrows
  /\ hist.lines = <<MessageLine("approval_request_message", <<ToolCall("t1", "Bash", <<"x">>)>>),
                    ResultLine(RateTxt, TRUE, 7),
                    AutoApprovalLine(<<ToolCall("t1", "Bash", <<"z">>)>>)>>
  /\ obs.progress = <<[kind |-> "tool", id |-> "t1"]>>
  /\ state.displayedToolCalls = {"t1"}

\* C30: the children of one invocation are spawned attempt by attempt: the first
\* child of an outer attempt is the invocation's first child or follows the
\* children of the attempt before, a second child (the next model of the chain or
\* the parent's model) follows the first child of the same attempt, and there is
\* no third; there are at most 1 + 2 outer attempts, so at most 6 children
C30_BoundedChildren ==
  [][hist'.nSpawns = hist.nSpawns + 1 =>
       /\ hist'.lastSpawn.cause \in {"first", "retry", "chain", "primary"}
       /\ hist'.lastSpawn.cause \in {"chain", "primary"} =>
            /\ hist.nSpawns > 0
            /\ hist.lastSpawn.cause \in {"first", "retry"}
            /\ hist'.lastSpawn.attempt = hist.lastSpawn.attempt
       /\ hist'.lastSpawn.cause = "first" =>
            hist.nSpawns = 0 /\ hist'.lastSpawn.attempt = 0
       /\ hist'.lastSpawn.cause = "retry" =>
            hist.nSpawns > 0 /\ hist'.lastSpawn.attempt = hist.lastSpawn.attempt + 1
       /\ hist'.lastSpawn.attempt <= MAX_TRANSIENT_RETRIES
       /\ hist'.outerAttempts = hist'.lastSpawn.attempt + 1
       /\ hist'.nSpawns <= 2 * hist'.outerAttempts
       /\ hist'.nSpawns <= 6]_vars

\* three outer attempts of two children each, and the call has returned
C30_Witness ==
  /\ pc = "done"
  /\ hist.nSpawns = 6
  /\ hist.outerAttempts = 3
  /\ hist.primaryFallbacks = 3

IsInitEvent(event) ==
  event.type = "init" \/ (event.type = "system" /\ event.subtype = "init")

\* C31: processing an init event, or a system event of subtype init, sets agentId
\* and conversationId to the ids the event carries and keeps the ones it does not
\* carry, changes no other field of ExecutionState, and processing the same line
\* again leaves ExecutionState as it is
C31_InitCapturesIds ==
  [][(nLines' = nLines + 1 /\ IsInitEvent(Unwrap(lastLine'))) =>
       LET event == Unwrap(lastLine')
       IN  /\ state'.agentId =
                IF event.agent_id # "" THEN event.agent_id ELSE state.agentId
           /\ state'.conversationId =
                IF event.conversation_id # "" THEN event.conversation_id
                ELSE state.conversationId
           /\ state' = [state EXCEPT !.agentId = state'.agentId,
                                     !.conversationId = state'.conversationId]
           /\ processStreamEvent(lastLine', state', obs').state = state']_vars

\* a system/init event without agent id was processed twice by an attempt that
\* had captured ag1: the agent id is kept, the conversation id captured
C31_Witness ==
  /\ hist.lines = <<SystemLine("init", "", "cv1"), SystemLine("init", "", "cv1")>>
  /\ state.agentId = "ag1"
  /\ state.conversationId = "cv1"

\* C32: when a child other than the first is spawned, the callback has been
\* notified since the child before it closed: of the model about to be used, as the
\* last notification, when the chain advanced or the parent's model is used (a
\* model other than the one the child before ran on), and of the retry when the
\* backoff wait has elapsed
C32_DecisionNotifiedBeforeSpawn ==
  [][(hist'.nSpawns = hist.nSpawns + 1 /\ hist.nSpawns > 0) =>
       LET cause == hist'.lastSpawn.cause
           n == Len(obs.progress)
       IN  /\ cause \in {"chain", "primary"} =>
                /\ n > 0
                /\ obs.progress[n] = [kind |-> "model", id |-> hist'.lastSpawn.model]
                /\ hist'.lastSpawn.model # hist.lastSpawn.model
           /\ cause = "retry" =>
                \E i \in 1..n : obs.progress[i].kind = "retry"]_vars

\* the third child of the invocation runs: the first failed with a model error,
\* the second, on the parent's model, with a rate limit
C32_Witness ==
  /\ pc = "running"
  /\ hist.nSpawns = 3
  /\ hist.lastSpawn.cause = "retry"
  /\ hist.primaryFallbacks = 1

(***************************************************************************)
(* computeRetryDelayMs on every attempt number and every jitter            *)
(***************************************************************************)
MaxAttemptNumber == 6

RETRY_BASE_DELAY_MS == 800
RETRY_MAX_DELAY_MS == 8000
\* Math.floor(Math.random() * 300)
Jitters == 0..299

Min(a, b) == IF a < b THEN a ELSE b
Max(a, b) == IF a > b THEN a ELSE b

computeRetryDelayMs_mut(n, jitter) ==
  Min(RETRY_MAX_DELAY_MS, RETRY_BASE_DELAY_MS * 2 ^ Max(0, n - 1)) + jitter

\* lines 205-213
computeRetryDelayMs(n, jitter) ==
  LET base == Min(RETRY_MAX_DELAY_MS, RETRY_BASE_DELAY_MS * 2 ^ Max(0, n - 1))
  IN  Min(RETRY_MAX_DELAY_MS, base + jitter)

\* spawnSubagent, line 1334: the delay is computed
ComputeDelay ==
  /\ call = NoCall
  /\ \E n \in 1..MaxAttemptNumber, jitter \in Jitters :
       call' = [fn |-> "computeRetryDelayMs", attempt |-> n, jitter |-> jitter,
                delayMs |-> computeRetryDelayMs(n, jitter)]
  /\ UNCHANGED <<invocation, permission, toolset>>

SpecDelay == ToolsetInit /\ [][ComputeDelay]_vars

C34_DelayListenerReleased ==
  IF pc = "backoff" THEN hist.delayListeners = 1 ELSE hist.delayListeners = 0

OptionalFlags ==
  <<"--permission-mode", "--allowedTools", "--disallowedTools", "--init-blocks",
    "--tools", "--max-turns", "--pre-load-skills">>
Positions(flag) == {i \in 1..Len(cliArgs) : cliArgs[i] = Arg(flag)}
Items(list) == {list[i] : i \in 1..Len(list)}

\* C36: in the argument vector of a child every optional flag appears at most
\* once, after --output-format and its value, and the flags that appear are in the
\* order permission mode, allowed tools, disallowed tools, memory-block filter, tool
\* filter, turn cap, skill preload; the value of --allowedTools names every tool of
\* the parent's allowed tools, the session's allow rules and the subagent's tool
\* list once, and the flag is absent when there is none
C36_OptionalArgumentsInFixedOrder ==
  hist.nSpawns > 0 =>
    /\ \A k \in 1..Len(OptionalFlags) : Cardinality(Positions(OptionalFlags[k])) <= 1
    /\ \A k \in 1..Len(OptionalFlags) : \A i \in Positions(OptionalFlags[k]) :
         /\ \E o \in Positions("--output-format") : i > o + 1
         /\ i < Len(cliArgs)
         /\ \A l \in (k + 1)..Len(OptionalFlags) : \A j \in Positions(OptionalFlags[l]) :
              i + 1 < j
    /\ LET tools == Items(config.parentAllowedTools) \cup Items(config.sessionAllowRules)
                      \cup (IF config.allowedTools.all THEN {}
                            ELSE Items(config.allowedTools.list))
       IN  /\ Has("--allowedTools") <=> tools # {}
           /\ Has("--allowedTools") =>
                /\ Items(ValueOf("--allowedTools")) = tools
                /\ Len(ValueOf("--allowedTools")) = Cardinality(tools)

\* all seven optional arguments are present, and Read, allowed by the parent and
\* listed by the subagent, is named once
C36_Witness ==
  /\ hist.nSpawns > 0
  /\ \A k \in 1..Len(OptionalFlags) : Has(OptionalFlags[k])
  /\ config.parentAllowedTools = <<"Read">>
  /\ ValueOf("--allowedTools") = <<"Read", "Bash", "Grep">>

(***************************************************************************)
(* SpecClassify: the four phrase tests of the failure classification,      *)
(* applied to error texts whose phrases are written in any letter case     *)
(***************************************************************************)
Cases == {"lower", "cap", "upper"}

\* an error text holding one phrase, or the three phrases of the provider message,
\* each in some letter case
ErrorTexts ==
  {{Tok(p, c)} : p \in TransientPhrases \cup RateLimitPhrases \cup {"unknown model", "boom"},
                 c \in Cases}
    \cup {{Tok("provider", c1), Tok("is not supported", c2), Tok("supported providers:", c3)} :
            c1 \in Cases, c2 \in Cases, c3 \in Cases}

\* executeSubagent, lines 896-897, and isRetryableSubagentError, line 239: the
\* captured error text is put to the four tests
ClassifyError ==
  /\ call = NoCall
  /\ \E errorOutput \in ErrorTexts :
       call' = [fn |-> "classify", errorOutput |-> errorOutput,
                providerNotSupported |-> isProviderNotSupportedError(errorOutput),
                unknownModel |-> isUnknownModelError(errorOutput),
                rateLimited |-> isRateLimitError(errorOutput),
                transientTransport |-> isTransientTransportError(errorOutput)]
  /\ UNCHANGED <<invocation, permission, toolset>>

SpecClassify == ToolsetInit /\ [][ClassifyError]_vars

\* the letter case in which the tests spell a phrase
WrittenCase(p) == IF p \in {"provider", "unknown model"} THEN "cap" ELSE "lower"
\* the text with every phrase in the letter case of the tests
AsWritten(t) == {Tok(k[1], WrittenCase(k[1])) : k \in t}

\* C37: an error text is put in the same classes as the text that differs from it
\* only in letter case and spells every phrase as the tests do, for each of
\* provider_not_supported, unknown_model, rate_limited and transient_transport
C37_ClassificationIgnoresCase ==
  call.fn = "classify" =>
    /\ call.providerNotSupported = isProviderNotSupportedError(AsWritten(call.errorOutput))
    /\ call.unknownModel = isUnknownModelError(AsWritten(call.errorOutput))
    /\ call.rateLimited = isRateLimitError(AsWritten(call.errorOutput))
    /\ call.transientTransport = isTransientTransportError(AsWritten(call.errorOutput))

\* C38: in every state between the steps of loadTools, loadSpecificTools and
\* clearToolsWithLock calls, whether they return or throw, the reference count of
\* the switch lock is a natural number equal to the number of calls that have
\* taken the lock and not yet released it, and the lock holds a promise, with its
\* resolver, exactly when the count is greater than 0
C38_RefCountIsSwitchesInProgress ==
  /\ toolset.lock.refCount \in Nat
  /\ toolset.lock.refCount = Cardinality(Loading(toolset))
  /\ toolset.lock.promise # 0 <=> toolset.lock.refCount > 0
  /\ toolset.lock.resolve = toolset.lock.promise
  /\ toolset.lock.promise \notin toolset.settled

\* of two overlapping loads the first threw and the second is still in progress:
\* the count is 1 and the promise of the first acquirer is pending
C38_Witness ==
  /\ Len(toolset.switches) = 2
  /\ toolset.switches[1].status = "threw"
  /\ toolset.switches[2].status = "loading"
  /\ toolset.switches[2].overlaps = {1}
  /\ toolset.lock.refCount = 1
  /\ toolset.lock.promise = 1

\* C39: when the switch started last is a load that overlapped an earlier load,
\* and both have replaced the registry and no switch is in progress, the registry
\* holds the toolset of the switch started last
C39_LastStartedSwitchWins ==
  LET n == Len(toolset.switches)
  IN  (/\ n >= 2
       /\ Loading(toolset) = {}
       /\ toolset.switches[n].fn \in Loaders
       /\ toolset.switches[n].status = "done"
       /\ \E i \in toolset.switches[n].overlaps : toolset.switches[i].status = "done")
        => toolset.registry = n

(***************************************************************************)
(* permissions/mode: the permission-mode manager                           *)
(***************************************************************************)
MaxModeCalls == 3
PermissionMode == {"default", "acceptEdits", "plan", "bypassPermissions"}
PlanFilePaths == {"", "plan.md"}

setMode_mut(p, mode) ==
  LET prevMode == p.mode
      p1 == IF mode = "plan" THEN [p EXCEPT !.modeBeforePlan = prevMode] ELSE p
      p2 == [p1 EXCEPT !.mode = mode]
      p3 == IF mode # "plan" THEN [p2 EXCEPT !.planFilePath = ""] ELSE p2
  IN  IF prevMode = "plan" /\ mode # "plan" THEN [p3 EXCEPT !.modeBeforePlan = ""] ELSE p3

\* lines 133-153
setMode(p, mode) ==
  LET prevMode == p.mode
      p1 == IF mode = "plan" /\ prevMode # "plan"
            THEN [p EXCEPT !.modeBeforePlan = prevMode] ELSE p
      p2 == [p1 EXCEPT !.mode = mode]
      p3 == IF mode # "plan" THEN [p2 EXCEPT !.planFilePath = ""] ELSE p2
  IN  IF prevMode = "plan" /\ mode # "plan" THEN [p3 EXCEPT !.modeBeforePlan = ""] ELSE p3

\* lines 159-161
getModeBeforePlan(p) == p.modeBeforePlan

\* lines 166-168
getMode(p) == p.mode

\* lines 173-175
setPlanFilePath(p, path) == [p EXCEPT !.planFilePath = path]

\* lines 362-366
reset(p) == [p EXCEPT !.mode = "default", !.planFilePath = "", !.modeBeforePlan = ""]

CallSetMode ==
  /\ Len(permission.calls) < MaxModeCalls
  /\ \E mode \in PermissionMode :
       permission' = [setMode(permission, mode) EXCEPT
                        !.calls = Append(@, [op |-> "setMode", mode |-> mode])]
  /\ UNCHANGED <<invocation, call, toolset>>

CallSetPlanFilePath ==
  /\ Len(permission.calls) < MaxModeCalls
  /\ \E path \in PlanFilePaths :
       permission' = [setPlanFilePath(permission, path) EXCEPT
                        !.calls = Append(@, [op |-> "setPlanFilePath", mode |-> ""])]
  /\ UNCHANGED <<invocation, call, toolset>>

CallReset ==
  /\ Len(permission.calls) < MaxModeCalls
  /\ permission' = [reset(permission) EXCEPT
                      !.calls = Append(@, [op |-> "reset", mode |-> ""])]
  /\ UNCHANGED <<invocation, call, toolset>>

PermissionNext == CallSetMode \/ CallSetPlanFilePath \/ CallReset

SpecPermission == ToolsetInit /\ [][PermissionNext]_vars

\* the mode the calls ask for: the mode current after the first k calls
RequestedMode(k) ==
  LET made == {i \in 1..k : permission.calls[i].op \in {"setMode", "reset"}}
  IN  IF made = {} THEN "default"
      ELSE LET last == CHOOSE i \in made : \A j \in made : j <= i
           IN  IF permission.calls[last].op = "reset" THEN "default"
               ELSE permission.calls[last].mode

\* C40: after any sequence of setMode, setPlanFilePath and reset calls,
\* getModeBeforePlan() is non-null exactly when the current mode is plan, and it is
\* then the mode that was current before the call that entered the present stay in
\* plan mode
C40_ModeBeforePlanTracksPlan ==
  LET n == Len(permission.calls)
  IN  /\ getMode(permission) = RequestedMode(n)
      /\ getModeBeforePlan(permission) # "" <=> getMode(permission) = "plan"
      /\ getMode(permission) = "plan" =>
           \E k \in 0..(n - 1) :
             /\ RequestedMode(k) # "plan"
             /\ \A j \in (k + 1)..n : RequestedMode(j) = "plan"
             /\ getModeBeforePlan(permission) = RequestedMode(k)

\* plan mode was entered from bypassPermissions and asked for again while in it
C40_Witness ==
  /\ permission.calls = <<[op |-> "setMode", mode |-> "bypassPermissions"],
                          [op |-> "setMode", mode |-> "plan"],
                          [op |-> "setMode", mode |-> "plan"]>>
  /\ getMode(permission) = "plan"
  /\ getModeBeforePlan(permission) = "bypassPermissions"

====
